---- MODULE Spec2Model ----
(***************************************************************************)
(* One device session of lingzhi-server: the inbound read loop             *)
(* (HandleConnection, handleTextMessage, handleAudioMessage with the VAD   *)
(* segmenter and the ASR dispatcher), the generation stage (handleChat     *)
(* with llm.ProcessLLM), the synthesis stage (handleTTS) and the response  *)
(* writer (handleResponses), as four tasks sharing one ConnectionState.    *)
(*                                                                         *)
(* Time is in milliseconds.  A text is the number of the recognition call  *)
(* that produced it, a reply is the number of the utterance handleChat     *)
(* took, a fragment is <<reply, k>>.                                       *)
(***************************************************************************)
EXTENDS Integers, Sequences, FiniteSets, TLC

VARIABLES
    \* ---- inbound read loop (HandleConnection) ----
    pcRead,                   \* "auth" | "read" | "asr" | "send2LLM" | "sendAbort" |
                              \* "sendHello" | "logError" |
                              \* "closeConn" | "cancel" | "closeChan" | "exited"
    asrText,                  \* text returned by ProcessASR, being routed (0: none)
    \* ---- model.ConnectionState ----
    ClientAbort,
    ClientListenMode,
    ClientAudioBuffer,        \* bytes of PCM not yet consumed by a window
    ClientHaveVoice,
    ClientHaveVoiceLastTime,
    ClientNoVoiceLastTime,
    ClientVoiceStop,
    ASRAudio,                 \* sequence of chunks (each its byte length)
    ASRServerReceive,
    States,                   \* payload of the last iot command (0: none)
    Description,
    LLMFlag,
    StartSpeakTime,
    TTSDuration,
    \* ---- WebSocketConnection ----
    llmChan,
    ttsChan,
    responseChan,
    dialogueStore,
    \* ---- generation stage (handleChat / ProcessLLM) ----
    pcChat,                   \* "idle" | "startSpeak" | "request" | "check" | "wait" | "exited"
    chatReply,                \* reply being generated
    chatFrags,                \* fragments streamed so far for chatReply
    \* ---- synthesis stage (handleTTS) ----
    pcTTS,                    \* "idle" | "synth" | "emit" | "endCheck" | "endSpeak" | "exited"
    ttsFrag,                  \* fragment being synthesised
    ttsFrames,                \* frames of ttsFrag still to be enqueued
    \* ---- response writer (handleResponses) ----
    pcWriter,                 \* "recv" | "write" | "exited"
    wFrame,                   \* frame handed to conn.WriteMessage
    \* ---- lifecycle ----
    authEnabled,              \* config.WebSocket.Auth.Enabled
    authLog,                  \* outcomes of the token checks so far (history)
    ctxDone,                  \* wsc.ctx is cancelled
    connCloses,               \* calls of conn.Close()
    chanCloses,               \* calls of close(responseChan)
    panicked,                 \* a goroutine panicked (send on the closed responseChan)
    \* ---- clock ----
    now,
    \* ---- history (observation only, never read by the program) ----
    asrCalls,                 \* calls of the recognition collaborator so far
    routed,                   \* texts handed to llmChan so far
    replies,                  \* utterances taken by handleChat so far
    outLog,                   \* frames enqueued on responseChan so far
    vsRose,                   \* ClientVoiceStop went false -> true in the last ingested frame
    refOpen,                  \* reference segmenter: a voiced run is open
    refLastVoice,             \* reference segmenter: time of the last voiced window
    refRose,                  \* reference segmenter: the last ingested frame completed an utterance
    abortedUpTo,              \* replies taken by handleChat when the last abort was handled
    abortedGen,               \* reply whose generation was streaming when an abort was handled (0: none)
    cancelCalls,              \* calls of wsc.cancelFunc()
    written,                  \* frames conn.WriteMessage wrote
    writeTries,               \* calls of conn.WriteMessage
    idleMarked,               \* the idle-close branch of handleAudioMessage was taken
    genFailed,                \* replies whose generation call failed or ended without "complete"
    ttsFailed,                \* replies with a failed synthesis call
    vadMutex,                 \* package vad: the session holding vadMutex (0: unlocked)
    asrMutex,                 \* package asr: the session holding asrMutex (0: unlocked)
    peers                     \* the read loops of the sessions the server has open

connVars == <<ClientAbort, ClientListenMode, ClientAudioBuffer, ClientHaveVoice,
              ClientHaveVoiceLastTime, ClientNoVoiceLastTime, ClientVoiceStop,
              ASRAudio, ASRServerReceive>>
iotVars == <<States, Description>>
peerVars == <<vadMutex, asrMutex, peers>>
readVars == <<pcRead, asrText>>
segGhost == <<vsRose, refOpen, refLastVoice, refRose>>
abortGhost == <<abortedUpTo, abortedGen>>
lifeVars == <<authEnabled, authLog, ctxDone, connCloses, chanCloses, cancelCalls>>
writerVars == <<pcWriter, wFrame, written, writeTries>>
failGhost == <<idleMarked, genFailed, ttsFailed>>
paceVars == <<StartSpeakTime, TTSDuration>>
chatVars == <<pcChat, chatReply, chatFrags>>
ttsVars  == <<pcTTS, ttsFrag, ttsFrames>>
vars == <<connVars, iotVars, readVars, segGhost, abortGhost, paceVars, chatVars, ttsVars, LLMFlag,
          llmChan, ttsChan, responseChan, dialogueStore, now,
          asrCalls, routed, replies, outLog,
          lifeVars, writerVars, failGhost, panicked, peerVars>>

----------------------------------------------------------------------------
(* Program constants *)

\* vad.go DefaultVADConfig
SilenceThresholdMs == 500
FrameSize == 512
\* handleAudioMessage: "音频太短了，无法识别"
MinChunks == 3
\* asr DefaultASRConfig: 1024 * 1024 * 2
MaxAudioSize == 2097152
\* NewWebSocketConnection: make(chan ..., 10)
ChanCap == 10

(* Bounds of the model *)

\* websocket.close_connection_timeout (seconds), a configuration value
CloseConnectionTimeout == 1
\* wall clock at construction, the step of the clock and the number of steps
T0 == 1000
TickMs == 500
MaxTicks == 4
\* recognition calls per session
MaxUtter == 2
\* chunks the device lets accumulate in the utterance queue
MaxChunks == 4
\* streamed fragments per reply, audio frames per synthesised fragment
MaxFrags == 2
MaxFrames == 2
\* abort commands per session
MaxAborts == 1
\* utterances of the device that speaks one reply at a time
MaxTurns == 1
\* the same three for the session that is followed to its end: utterances,
\* fragments per reply, frames per fragment
LifeTurns == 1
LifeFrags == 1
LifeFrames == 1
\* websocket.sample_rate, a configuration value
SampleRate == 16000
\* frames the handlers of control frames enqueue in a session of control frames
MaxCtlFrames == 2
\* bytes of the large audio frames a device may send
LargeChunk == 1048576

\* the device's audio frames: len is the frame's byte length, pcm the bytes
\* of PCM processVAD appends for it (decodeOpus, or the frame itself)
AudioFrames == { [len |-> 128, pcm |-> 512],
                 [len |-> 128, pcm |-> 1024],
                 [len |-> 128, pcm |-> 2048] }

\* frames of LargeChunk bytes (not Opus: processVAD would take them as PCM)
LargeFrames == { [len |-> LargeChunk, pcm |-> LargeChunk] }

ListenModes == {"auto", "manual", "realtime"}

RECURSIVE SumSeq(_)
SumSeq(s) == IF s = <<>> THEN 0 ELSE Head(s) + SumSeq(Tail(s))

BoolSeqs(n) == [1..n -> BOOLEAN]

----------------------------------------------------------------------------
(* The Audio Segmenter: vad.processVAD *)

\* float64(time.Now().Unix()) * 1000
UnixSecMs(t) == (t \div 1000) * 1000

\* processVAD: frameSize := v.config.FrameSize * 2
WindowBytes == FrameSize * 2

\* a processVAD that forgets to ask whether a voiced run is open
VoiceStopDetected_AnySilence(hv, voiced, last) ==
    ~voiced /\ (now - last >= SilenceThresholdMs)

\* processVAD line 184-186: the window ends the utterance
VoiceStopDetected(hv, voiced, last) ==
    hv /\ ~voiced /\ (now - last >= SilenceThresholdMs)

\* processVAD: one pass of the loop body for a window classified `voiced`
VadWindow(st, voiced) ==
    [ hv    |-> st.hv \/ voiced,
      last  |-> IF voiced THEN now ELSE st.last,
      vs    |-> st.vs \/ VoiceStopDetected(st.hv, voiced, st.last),
      voice |-> voiced ]

RECURSIVE VadLoop(_, _)
VadLoop(st, rs) ==
    IF rs = <<>> THEN st ELSE VadLoop(VadWindow(st, Head(rs)), Tail(rs))

\* windows processVAD classifies for a frame adding `pcm` bytes
NumWindows(pcm) == (ClientAudioBuffer + pcm) \div WindowBytes

\* processVAD on the connection state; rs are the collaborator's answers
\* (callVADService; an error counts as "no voice")
processVAD(rs) ==
    VadLoop([hv |-> ClientHaveVoice, last |-> ClientHaveVoiceLastTime,
             vs |-> ClientVoiceStop, voice |-> FALSE], rs)

(* The reference segmenter the voice-stop claim is stated against: a voiced
   window opens a run; an unvoiced window at least SilenceThresholdMs after
   the last voiced one completes the utterance; the rest of that frame
   belongs to the completed utterance. *)
RefWindow(st, voiced) ==
    IF st.rose THEN st
    ELSE IF voiced THEN [st EXCEPT !.open = TRUE, !.last = now]
    ELSE IF st.open /\ now - st.last >= SilenceThresholdMs
         THEN [st EXCEPT !.open = FALSE, !.rose = TRUE]
         ELSE st

RECURSIVE RefLoop(_, _)
RefLoop(st, rs) ==
    IF rs = <<>> THEN st ELSE RefLoop(RefWindow(st, Head(rs)), Tail(rs))

----------------------------------------------------------------------------
(* The Recognition Dispatcher: asr.ProcessASR up to the collaborator call *)

ASRPrecheckFails(audio) ==
    Len(audio) = 0 \/ SumSeq(audio) > MaxAudioSize

\* a reset that leaves the voice flags as they are
ResetVad_KeepFlags ==
    /\ ASRAudio' = <<>>
    /\ ClientAudioBuffer' = 0
    /\ ClientHaveVoiceLastTime' = 0
    /\ UNCHANGED <<ClientHaveVoice, ClientVoiceStop>>

\* handleAudioMessage lines 390-394
ResetVad ==
    /\ ASRAudio' = <<>>
    /\ ClientAudioBuffer' = 0
    /\ ClientHaveVoice' = FALSE
    /\ ClientHaveVoiceLastTime' = 0
    /\ ClientVoiceStop' = FALSE

\* a length check that lets utterances of two chunks through
TooShort_Two(audio) == Len(audio) < 2

\* handleAudioMessage line 372
TooShort(audio) == Len(audio) < MinChunks

\* handleAudioMessage line 351
IdleExpired(noVoiceLast) ==
    UnixSecMs(now) - noVoiceLast >= 1000 * CloseConnectionTimeout

\* a read loop that does not look at the context
LoopTop_IgnoresCancel == "read"

\* HandleConnection lines 565-568: back at the top of the loop, the read loop
\* leaves if the context is cancelled and calls ReadMessage otherwise
LoopTop == IF ctxDone THEN "closeConn" ELSE "read"

pipeVars == <<paceVars, chatVars, ttsVars, LLMFlag, ttsChan, responseChan,
              dialogueStore, replies, outLog>>

\* a segmenter that ingests frames while a recognition is pending
handleAudioMessage_NoGate(f, rs) ==
    /\ pcRead = "read"
    /\ UNCHANGED <<pipeVars, abortGhost, llmChan, routed, now, asrText, ClientListenMode>>
    /\ UNCHANGED <<peerVars, iotVars, lifeVars, writerVars, genFailed, ttsFailed, panicked>>
    /\ IF FALSE
       THEN \* line 328: dropped
            /\ pcRead' = LoopTop
            /\ UNCHANGED <<connVars, asrCalls, segGhost, idleMarked>>
       ELSE
       LET auto  == ClientListenMode = "auto"
           vad   == IF auto THEN processVAD(rs)
                    ELSE [hv |-> ClientHaveVoice, last |-> ClientHaveVoiceLastTime,
                          vs |-> ClientVoiceStop, voice |-> ClientHaveVoice]
           buf   == IF auto THEN (ClientAudioBuffer + f.pcm) % WindowBytes
                    ELSE ClientAudioBuffer
           ref   == IF auto
                    THEN RefLoop([open |-> refOpen, last |-> refLastVoice,
                                  rose |-> FALSE], rs)
                    ELSE [open |-> refOpen, last |-> refLastVoice, rose |-> FALSE]
           audio == Append(ASRAudio, f.len)
       IN
       /\ vsRose' = (auto /\ ~ClientVoiceStop /\ vad.vs)
       /\ refRose' = ref.rose
       /\ refOpen' = ref.open
       /\ refLastVoice' = ref.last
       /\ idleMarked' = ( \/ idleMarked
                          \/ /\ ~vad.voice /\ ~vad.hv
                             /\ ClientNoVoiceLastTime # 0
                             /\ IdleExpired(ClientNoVoiceLastTime) )
       /\ IF ~vad.voice /\ ~vad.hv
          THEN \* lines 345-361: no voice now, none in this segment
               /\ IF ClientNoVoiceLastTime = 0
                  THEN /\ ClientNoVoiceLastTime' = UnixSecMs(now)
                       /\ UNCHANGED <<ClientAbort, ASRServerReceive>>
                  ELSE IF IdleExpired(ClientNoVoiceLastTime)
                  THEN /\ ClientAbort' = FALSE
                       /\ ASRServerReceive' = FALSE
                       /\ UNCHANGED ClientNoVoiceLastTime
                  ELSE UNCHANGED <<ClientNoVoiceLastTime, ClientAbort, ASRServerReceive>>
               /\ ASRAudio' = <<>>
               /\ ClientAudioBuffer' = buf
               /\ ClientHaveVoice' = vad.hv
               /\ ClientHaveVoiceLastTime' = vad.last
               /\ ClientVoiceStop' = vad.vs
               /\ pcRead' = LoopTop
               /\ UNCHANGED asrCalls
          ELSE IF ~vad.vs
          THEN \* lines 362-363, utterance still open
               /\ ClientNoVoiceLastTime' = 0
               /\ ASRAudio' = audio
               /\ ClientAudioBuffer' = buf
               /\ ClientHaveVoice' = vad.hv
               /\ ClientHaveVoiceLastTime' = vad.last
               /\ ClientVoiceStop' = vad.vs
               /\ pcRead' = LoopTop
               /\ UNCHANGED <<ClientAbort, ASRServerReceive, asrCalls>>
          ELSE IF TooShort(audio)
          THEN \* lines 366-373, 390-394: discarded
               /\ ClientNoVoiceLastTime' = 0
               /\ ClientAbort' = FALSE
               /\ ASRServerReceive' = TRUE
               /\ ResetVad
               /\ pcRead' = LoopTop
               /\ UNCHANGED asrCalls
          ELSE IF ASRPrecheckFails(audio)
          THEN \* ProcessASR returns an error before any call; line 381
               /\ ClientNoVoiceLastTime' = 0
               /\ ClientAbort' = FALSE
               /\ ASRServerReceive' = FALSE
               /\ ASRAudio' = audio
               /\ ClientAudioBuffer' = buf
               /\ ClientHaveVoice' = vad.hv
               /\ ClientHaveVoiceLastTime' = vad.last
               /\ ClientVoiceStop' = vad.vs
               /\ pcRead' = LoopTop
               /\ UNCHANGED asrCalls
          ELSE \* lines 366-378: the collaborator is called
               /\ ClientNoVoiceLastTime' = 0
               /\ ClientAbort' = FALSE
               /\ ASRServerReceive' = FALSE
               /\ ASRAudio' = audio
               /\ ClientAudioBuffer' = buf
               /\ ClientHaveVoice' = vad.hv
               /\ ClientHaveVoiceLastTime' = vad.last
               /\ ClientVoiceStop' = vad.vs
               /\ pcRead' = "asr"
               /\ asrCalls' = asrCalls + 1

(* handleAudioMessage(data), from its entry to its return or to the call of
   the recognition collaborator.  f is the frame, rs the voice-activity
   collaborator's answers for the windows the frame completes. *)
handleAudioMessage(f, rs) ==
    /\ pcRead = "read"
    /\ UNCHANGED <<pipeVars, abortGhost, llmChan, routed, now, asrText, ClientListenMode>>
    /\ UNCHANGED <<peerVars, iotVars, lifeVars, writerVars, genFailed, ttsFailed, panicked>>
    /\ IF ~ASRServerReceive
       THEN \* line 328: dropped
            /\ pcRead' = LoopTop
            /\ UNCHANGED <<connVars, asrCalls, segGhost, idleMarked>>
       ELSE
       LET auto  == ClientListenMode = "auto"
           vad   == IF auto THEN processVAD(rs)
                    ELSE [hv |-> ClientHaveVoice, last |-> ClientHaveVoiceLastTime,
                          vs |-> ClientVoiceStop, voice |-> ClientHaveVoice]
           buf   == IF auto THEN (ClientAudioBuffer + f.pcm) % WindowBytes
                    ELSE ClientAudioBuffer
           ref   == IF auto
                    THEN RefLoop([open |-> refOpen, last |-> refLastVoice,
                                  rose |-> FALSE], rs)
                    ELSE [open |-> refOpen, last |-> refLastVoice, rose |-> FALSE]
           audio == Append(ASRAudio, f.len)
       IN
       /\ vsRose' = (auto /\ ~ClientVoiceStop /\ vad.vs)
       /\ refRose' = ref.rose
       /\ refOpen' = ref.open
       /\ refLastVoice' = ref.last
       /\ idleMarked' = ( \/ idleMarked
                          \/ /\ ~vad.voice /\ ~vad.hv
                             /\ ClientNoVoiceLastTime # 0
                             /\ IdleExpired(ClientNoVoiceLastTime) )
       /\ IF ~vad.voice /\ ~vad.hv
          THEN \* lines 345-361: no voice now, none in this segment
               /\ IF ClientNoVoiceLastTime = 0
                  THEN /\ ClientNoVoiceLastTime' = UnixSecMs(now)
                       /\ UNCHANGED <<ClientAbort, ASRServerReceive>>
                  ELSE IF IdleExpired(ClientNoVoiceLastTime)
                  THEN /\ ClientAbort' = FALSE
                       /\ ASRServerReceive' = FALSE
                       /\ UNCHANGED ClientNoVoiceLastTime
                  ELSE UNCHANGED <<ClientNoVoiceLastTime, ClientAbort, ASRServerReceive>>
               /\ ASRAudio' = <<>>
               /\ ClientAudioBuffer' = buf
               /\ ClientHaveVoice' = vad.hv
               /\ ClientHaveVoiceLastTime' = vad.last
               /\ ClientVoiceStop' = vad.vs
               /\ pcRead' = LoopTop
               /\ UNCHANGED asrCalls
          ELSE IF ~vad.vs
          THEN \* lines 362-363, utterance still open
               /\ ClientNoVoiceLastTime' = 0
               /\ ASRAudio' = audio
               /\ ClientAudioBuffer' = buf
               /\ ClientHaveVoice' = vad.hv
               /\ ClientHaveVoiceLastTime' = vad.last
               /\ ClientVoiceStop' = vad.vs
               /\ pcRead' = LoopTop
               /\ UNCHANGED <<ClientAbort, ASRServerReceive, asrCalls>>
          ELSE IF TooShort(audio)
          THEN \* lines 366-373, 390-394: discarded
               /\ ClientNoVoiceLastTime' = 0
               /\ ClientAbort' = FALSE
               /\ ASRServerReceive' = TRUE
               /\ ResetVad
               /\ pcRead' = LoopTop
               /\ UNCHANGED asrCalls
          ELSE IF ASRPrecheckFails(audio)
          THEN \* ProcessASR returns an error before any call; line 381
               /\ ClientNoVoiceLastTime' = 0
               /\ ClientAbort' = FALSE
               /\ ASRServerReceive' = FALSE
               /\ ASRAudio' = audio
               /\ ClientAudioBuffer' = buf
               /\ ClientHaveVoice' = vad.hv
               /\ ClientHaveVoiceLastTime' = vad.last
               /\ ClientVoiceStop' = vad.vs
               /\ pcRead' = LoopTop
               /\ UNCHANGED asrCalls
          ELSE \* lines 366-378: the collaborator is called
               /\ ClientNoVoiceLastTime' = 0
               /\ ClientAbort' = FALSE
               /\ ASRServerReceive' = FALSE
               /\ ASRAudio' = audio
               /\ ClientAudioBuffer' = buf
               /\ ClientHaveVoice' = vad.hv
               /\ ClientHaveVoiceLastTime' = vad.last
               /\ ClientVoiceStop' = vad.vs
               /\ pcRead' = "asr"
               /\ asrCalls' = asrCalls + 1

\* a read loop that returns when recognition fails
ASRFail_EndsSession ==
    /\ pcRead = "asr"
    /\ pcRead' = "closeConn"
    /\ UNCHANGED <<peerVars, iotVars, lifeVars, writerVars, failGhost, panicked>>
    /\ UNCHANGED <<connVars, asrText, segGhost, abortGhost, pipeVars, llmChan, routed, now, asrCalls>>

(* callASRService fails (timeout, status, malformed body): ProcessASR and
   handleAudioMessage return the error, lines 119-122 and 379-381 *)
ASRFail ==
    /\ pcRead = "asr"
    /\ pcRead' = LoopTop
    /\ UNCHANGED <<peerVars, iotVars, lifeVars, writerVars, failGhost, panicked>>
    /\ UNCHANGED <<connVars, asrText, segGhost, abortGhost, pipeVars, llmChan, routed, now, asrCalls>>

(* callASRService succeeds: ProcessASR clears the queue and returns the text *)
ASRSucceed ==
    /\ pcRead = "asr"
    /\ pcRead' = "send2LLM"
    /\ asrText' = asrCalls
    /\ UNCHANGED <<peerVars, iotVars, lifeVars, writerVars, failGhost, panicked>>
    /\ ASRAudio' = <<>>
    /\ UNCHANGED <<ClientAbort, ClientListenMode, ClientAudioBuffer, ClientHaveVoice,
                   ClientHaveVoiceLastTime, ClientNoVoiceLastTime, ClientVoiceStop,
                   ASRServerReceive>>
    /\ UNCHANGED <<segGhost, abortGhost, pipeVars, llmChan, routed, now, asrCalls>>

(* send2LLM(text) and the rest of handleAudioMessage, lines 385-395.  The
   select of send2LLM hands the text over when llmChan has room and may
   return without it when the context is cancelled. *)
send2LLM ==
    /\ pcRead = "send2LLM"
    /\ \/ /\ Len(llmChan) < ChanCap
          /\ llmChan' = Append(llmChan, asrText)
          /\ routed' = Append(routed, asrText)
       \/ /\ ctxDone
          /\ UNCHANGED <<llmChan, routed>>
    /\ asrText' = 0
    /\ pcRead' = LoopTop
    /\ UNCHANGED <<peerVars, iotVars, lifeVars, writerVars, failGhost, panicked>>
    /\ ASRServerReceive' = TRUE
    /\ ResetVad
    /\ UNCHANGED <<ClientAbort, ClientListenMode, ClientNoVoiceLastTime>>
    /\ UNCHANGED <<segGhost, abortGhost, pipeVars, now, asrCalls>>

\* a stop command that hands the utterance to recognition itself
handleListen_StopDispatches(mode, state) ==
    /\ pcRead = "read"
    /\ ClientListenMode' = IF mode # "" THEN mode ELSE ClientListenMode
    /\ CASE state = "start"  -> /\ ClientHaveVoice' = TRUE
                                /\ ClientVoiceStop' = FALSE
                                /\ UNCHANGED ASRAudio
         [] state = "stop"   -> /\ ClientHaveVoice' = TRUE
                                /\ ClientVoiceStop' = TRUE
                                /\ UNCHANGED ASRAudio
         [] state = "detect" -> /\ ClientHaveVoice' = FALSE
                                /\ ASRAudio' = <<>>
                                /\ UNCHANGED ClientVoiceStop
         [] OTHER            -> UNCHANGED <<ClientHaveVoice, ClientVoiceStop, ASRAudio>>
    /\ UNCHANGED <<ClientAbort, ClientAudioBuffer, ClientHaveVoiceLastTime,
                   ClientNoVoiceLastTime, ASRServerReceive>>
    /\ pcRead' = IF state = "stop" THEN "asr" ELSE LoopTop
    /\ asrCalls' = IF state = "stop" THEN asrCalls + 1 ELSE asrCalls
    /\ UNCHANGED <<asrText, segGhost, abortGhost, pipeVars, llmChan, routed, now>>
    /\ UNCHANGED <<peerVars, iotVars, lifeVars, writerVars, failGhost, panicked>>

\* a detect that also forgets when voice was last heard
handleListen_DetectResetsAll(mode, state) ==
    /\ pcRead = "read"
    /\ ClientListenMode' = IF mode # "" THEN mode ELSE ClientListenMode
    /\ CASE state = "start"  -> /\ ClientHaveVoice' = TRUE
                                /\ ClientVoiceStop' = FALSE
                                /\ UNCHANGED ASRAudio
         [] state = "stop"   -> /\ ClientHaveVoice' = TRUE
                                /\ ClientVoiceStop' = TRUE
                                /\ UNCHANGED ASRAudio
         [] state = "detect" -> /\ ClientHaveVoice' = FALSE
                                /\ ASRAudio' = <<>>
                                /\ UNCHANGED ClientVoiceStop
                                /\ ClientHaveVoiceLastTime' = 0
         [] OTHER            -> UNCHANGED <<ClientHaveVoice, ClientVoiceStop, ASRAudio>>
    /\ IF state = "detect"
       THEN UNCHANGED <<ClientAbort, ClientAudioBuffer, ClientNoVoiceLastTime, ASRServerReceive>>
       ELSE UNCHANGED <<ClientAbort, ClientAudioBuffer, ClientHaveVoiceLastTime,
                        ClientNoVoiceLastTime, ASRServerReceive>>
    /\ pcRead' = LoopTop
    /\ UNCHANGED <<asrText, segGhost, abortGhost, pipeVars, llmChan, routed, now, asrCalls>>
    /\ UNCHANGED <<peerVars, iotVars, lifeVars, writerVars, failGhost, panicked>>

(* handleTextMessage, case "listen" *)
handleListen(mode, state) ==
    /\ pcRead = "read"
    /\ ClientListenMode' = IF mode # "" THEN mode ELSE ClientListenMode
    /\ CASE state = "start"  -> /\ ClientHaveVoice' = TRUE
                                /\ ClientVoiceStop' = FALSE
                                /\ UNCHANGED ASRAudio
         [] state = "stop"   -> /\ ClientHaveVoice' = TRUE
                                /\ ClientVoiceStop' = TRUE
                                /\ UNCHANGED ASRAudio
         [] state = "detect" -> /\ ClientHaveVoice' = FALSE
                                /\ ASRAudio' = <<>>
                                /\ UNCHANGED ClientVoiceStop
         [] OTHER            -> UNCHANGED <<ClientHaveVoice, ClientVoiceStop, ASRAudio>>
    /\ UNCHANGED <<ClientAbort, ClientAudioBuffer, ClientHaveVoiceLastTime,
                   ClientNoVoiceLastTime, ASRServerReceive>>
    /\ pcRead' = LoopTop
    /\ UNCHANGED <<asrText, segGhost, abortGhost, pipeVars, llmChan, routed, now, asrCalls>>
    /\ UNCHANGED <<peerVars, iotVars, lifeVars, writerVars, failGhost, panicked>>

(* the wall clock advances *)
Tick ==
    /\ now < T0 + MaxTicks * TickMs
    /\ now' = now + TickMs
    /\ UNCHANGED <<peerVars, iotVars, lifeVars, writerVars, failGhost, panicked>>
    /\ UNCHANGED <<connVars, readVars, segGhost, abortGhost, pipeVars, llmChan, routed, asrCalls>>

----------------------------------------------------------------------------
(* Outbound frames.  reply, frag and idx say which reply, fragment and
   position a frame was produced for; the bytes on the wire do not carry them. *)

Frame(kind, reply, frag, idx) ==
    [kind |-> kind, reply |-> reply, frag |-> frag, idx |-> idx]

\* sendResponse: the send case of the select can proceed
CanSendResponse == Len(responseChan) < ChanCap

(* sendResponse lines 306-312, a select over ctx.Done() and the send: the
   frame is enqueued when responseChan has room; with the context cancelled
   the call may return without it; a send that proceeds on the closed
   channel panics. *)
sendResponse(frame) ==
    \/ /\ chanCloses = 0
       /\ CanSendResponse
       /\ responseChan' = Append(responseChan, frame)
       /\ outLog' = Append(outLog, frame)
       /\ UNCHANGED panicked
    \/ /\ ctxDone
       /\ UNCHANGED <<responseChan, outLog, panicked>>
    \/ /\ chanCloses > 0
       /\ panicked' = TRUE
       /\ UNCHANGED <<responseChan, outLog>>

readLoopVars == <<connVars, readVars, segGhost, abortGhost, now, asrCalls, routed>>

\* an abort handler that sets the flag and sends nothing
handleAbort_NoStop ==
    /\ pcRead = "read"
    /\ ClientAbort' = TRUE
    /\ pcRead' = LoopTop
    /\ UNCHANGED <<peerVars, iotVars, lifeVars, writerVars, failGhost, panicked>>
    /\ abortedUpTo' = replies
    /\ abortedGen' = IF pcChat \in {"check", "wait"} THEN chatReply ELSE abortedGen
    /\ UNCHANGED <<ClientListenMode, ClientAudioBuffer, ClientHaveVoice,
                   ClientHaveVoiceLastTime, ClientNoVoiceLastTime, ClientVoiceStop,
                   ASRAudio, ASRServerReceive>>
    /\ UNCHANGED <<asrText, segGhost, pipeVars, llmChan, routed, now, asrCalls>>

(* handleTextMessage, case "abort": the flag is set, then the stop frame is
   handed to sendResponse *)
handleAbort ==
    /\ pcRead = "read"
    /\ ClientAbort' = TRUE
    /\ pcRead' = "sendAbort"
    /\ UNCHANGED <<peerVars, iotVars, lifeVars, writerVars, failGhost, panicked>>
    /\ abortedUpTo' = replies
    /\ abortedGen' = IF pcChat \in {"check", "wait"} THEN chatReply ELSE abortedGen
    /\ UNCHANGED <<ClientListenMode, ClientAudioBuffer, ClientHaveVoice,
                   ClientHaveVoiceLastTime, ClientNoVoiceLastTime, ClientVoiceStop,
                   ASRAudio, ASRServerReceive>>
    /\ UNCHANGED <<asrText, segGhost, pipeVars, llmChan, routed, now, asrCalls>>

sendAbortStop ==
    /\ pcRead = "sendAbort"
    /\ sendResponse(Frame("abortStop", 0, 0, 0))
    /\ pcRead' = LoopTop
    /\ UNCHANGED <<peerVars, iotVars, lifeVars, writerVars, failGhost>>
    /\ UNCHANGED <<connVars, asrText, segGhost, abortGhost, llmChan, routed, now, asrCalls>>
    /\ UNCHANGED <<paceVars, chatVars, ttsVars, LLMFlag, ttsChan, dialogueStore, replies>>

----------------------------------------------------------------------------
(* The generation stage: handleChat and llm.ProcessLLM *)

\* handleChat lines 246-253: an utterance is taken, the user turn appended
ChatRecv ==
    /\ pcChat = "idle"
    /\ UNCHANGED <<peerVars, iotVars, lifeVars, writerVars, failGhost, panicked>>
    /\ llmChan # <<>>
    /\ llmChan' = Tail(llmChan)
    /\ dialogueStore' = Append(dialogueStore, [role |-> "user", content |-> Head(llmChan)])
    /\ replies' = replies + 1
    /\ chatReply' = replies + 1
    /\ chatFrags' = 0
    /\ pcChat' = "startSpeak"
    /\ UNCHANGED <<readLoopVars, paceVars, ttsVars, LLMFlag, ttsChan, responseChan, outLog>>

\* handleChat line 255: startSpeak
ChatStartSpeak ==
    /\ pcChat = "startSpeak"
    /\ UNCHANGED <<peerVars, iotVars, lifeVars, writerVars, failGhost>>
    /\ sendResponse(Frame("start", chatReply, 0, 0))
    /\ pcChat' = "request"
    /\ UNCHANGED <<readLoopVars, paceVars, ttsVars, LLMFlag, llmChan, ttsChan,
                   dialogueStore, replies, chatReply, chatFrags>>

\* ProcessLLM lines 362-374: the request fails or is answered with a status
\* other than 200; the error is logged by handleChat
LLMRequestFail ==
    /\ pcChat = "request"
    /\ genFailed' = genFailed \cup {chatReply}
    /\ UNCHANGED <<peerVars, iotVars, lifeVars, writerVars, idleMarked, ttsFailed, panicked>>
    /\ pcChat' = "idle"
    /\ chatReply' = 0
    /\ UNCHANGED <<readLoopVars, paceVars, ttsVars, LLMFlag, llmChan, ttsChan,
                   responseChan, outLog, dialogueStore, replies, chatFrags>>

\* ProcessLLM line 380: the stream is open
LLMRequestOK ==
    /\ pcChat = "request"
    /\ UNCHANGED <<peerVars, iotVars, lifeVars, writerVars, failGhost, panicked>>
    /\ LLMFlag' = TRUE
    /\ pcChat' = "check"
    /\ UNCHANGED <<readLoopVars, paceVars, ttsVars, llmChan, ttsChan,
                   responseChan, outLog, dialogueStore, replies, chatReply, chatFrags>>

\* ProcessLLM lines 386-393: the abort check at the top of the loop, then
\* the stage waits in ReadString
LLMCheckAbort ==
    /\ pcChat = "check"
    /\ UNCHANGED <<peerVars, iotVars, lifeVars, writerVars, failGhost, panicked>>
    /\ IF ClientAbort
       THEN /\ pcChat' = "idle"
            /\ LLMFlag' = FALSE
            /\ chatReply' = 0
            /\ chatFrags' = 0
       ELSE /\ pcChat' = "wait"
            /\ UNCHANGED <<LLMFlag, chatReply, chatFrags>>
    /\ UNCHANGED <<readLoopVars, paceVars, ttsVars, llmChan, ttsChan,
                   responseChan, outLog, dialogueStore, replies>>

\* ProcessLLM lines 424-430: the non-blocking hand-over of a fragment
\* a push that makes room by dropping the oldest fragment
PushFragment_DropsOldest(chan, frag) ==
    IF Len(chan) < ChanCap THEN Append(chan, frag) ELSE Append(Tail(chan), frag)

PushFragment(chan, frag) ==
    IF Len(chan) < ChanCap THEN Append(chan, frag) ELSE chan

\* ProcessLLM lines 417-431: a line with status "streaming" and a chunk
LLMStreamingUpTo(n) ==
    /\ pcChat = "wait"
    /\ UNCHANGED <<peerVars, iotVars, lifeVars, writerVars, failGhost, panicked>>
    /\ chatFrags < n
    /\ chatFrags' = chatFrags + 1
    /\ ttsChan' = PushFragment(ttsChan, <<chatReply, chatFrags + 1>>)
    /\ pcChat' = "check"
    /\ UNCHANGED <<readLoopVars, paceVars, ttsVars, LLMFlag, llmChan,
                   responseChan, outLog, dialogueStore, replies, chatReply>>

LLMStreaming == LLMStreamingUpTo(MaxFrags)

\* ProcessLLM lines 403-413, 432-434, 443-445: a blank or unparsable line, an
\* empty chunk, a warning or an unknown status
LLMOtherLine ==
    /\ pcChat = "wait"
    /\ UNCHANGED <<peerVars, iotVars, lifeVars, writerVars, failGhost, panicked>>
    /\ pcChat' = "check"
    /\ UNCHANGED <<readLoopVars, paceVars, ttsVars, LLMFlag, llmChan, ttsChan,
                   responseChan, outLog, dialogueStore, replies, chatReply, chatFrags>>

\* ProcessLLM lines 435-442: "complete"; the deferred function clears LLMFlag
LLMComplete ==
    /\ pcChat = "wait"
    /\ UNCHANGED <<peerVars, iotVars, lifeVars, writerVars, failGhost, panicked>>
    /\ dialogueStore' = Append(dialogueStore, [role |-> "assistant", content |-> chatReply])
    /\ LLMFlag' = FALSE
    /\ pcChat' = "idle"
    /\ chatReply' = 0
    /\ chatFrags' = 0
    /\ UNCHANGED <<readLoopVars, paceVars, ttsVars, llmChan, ttsChan,
                   responseChan, outLog, replies>>

\* a generation stage that keeps what it has when the stream just ends
LLMStreamEnds_KeepsPartial ==
    /\ pcChat = "wait"
    /\ genFailed' = genFailed \cup {chatReply}
    /\ UNCHANGED <<peerVars, iotVars, lifeVars, writerVars, idleMarked, ttsFailed, panicked>>
    /\ dialogueStore' = Append(dialogueStore, [role |-> "assistant", content |-> chatReply])
    /\ LLMFlag' = FALSE
    /\ pcChat' = "idle"
    /\ chatReply' = 0
    /\ chatFrags' = 0
    /\ UNCHANGED <<readLoopVars, paceVars, ttsVars, llmChan, ttsChan,
                   responseChan, outLog, replies>>

\* ProcessLLM lines 394-399, 449-451: end of input or a read error; LLMFlag
\* is set and cleared again by the deferred function
LLMStreamEnds ==
    /\ pcChat = "wait"
    /\ genFailed' = genFailed \cup {chatReply}
    /\ UNCHANGED <<peerVars, iotVars, lifeVars, writerVars, idleMarked, ttsFailed, panicked>>
    /\ LLMFlag' = FALSE
    /\ pcChat' = "idle"
    /\ chatReply' = 0
    /\ chatFrags' = 0
    /\ UNCHANGED <<readLoopVars, paceVars, ttsVars, llmChan, ttsChan,
                   responseChan, outLog, dialogueStore, replies>>

\* handleChat lines 243-245: the select takes ctx.Done()
ChatExit ==
    /\ pcChat = "idle"
    /\ ctxDone
    /\ pcChat' = "exited"
    /\ UNCHANGED <<chatReply, chatFrags>>
    /\ UNCHANGED <<readLoopVars, paceVars, ttsVars, LLMFlag, llmChan, ttsChan,
                   responseChan, outLog, dialogueStore, replies>>
    /\ UNCHANGED <<peerVars, iotVars, lifeVars, writerVars, failGhost, panicked>>

----------------------------------------------------------------------------
(* The synthesis stage: handleTTS *)

\* milliseconds of audio per synthesised frame (TTSResponse.Duration * 1000)
FrameMs == 60

\* handleTTS lines 182-200: a fragment is received; the abort check
TTSRecv ==
    /\ pcTTS = "idle"
    /\ UNCHANGED <<peerVars, iotVars, lifeVars, writerVars, failGhost, panicked>>
    /\ ttsChan # <<>>
    /\ ttsChan' = Tail(ttsChan)
    /\ StartSpeakTime' = IF StartSpeakTime = 0 THEN now ELSE StartSpeakTime
    /\ IF ClientAbort
       THEN UNCHANGED <<pcTTS, ttsFrag>>
       ELSE /\ pcTTS' = "synth"
            /\ ttsFrag' = Head(ttsChan)
    /\ UNCHANGED <<readLoopVars, chatVars, TTSDuration, ttsFrames, LLMFlag, llmChan,
                   responseChan, outLog, dialogueStore, replies>>

\* handleTTS lines 203-207: the synthesis collaborator fails
TTSFail ==
    /\ pcTTS = "synth"
    /\ ttsFailed' = ttsFailed \cup {ttsFrag[1]}
    /\ UNCHANGED <<peerVars, iotVars, lifeVars, writerVars, idleMarked, genFailed, panicked>>
    /\ pcTTS' = "idle"
    /\ ttsFrag' = <<0, 0>>
    /\ UNCHANGED <<readLoopVars, chatVars, paceVars, ttsFrames, LLMFlag,
                   llmChan, ttsChan, responseChan, outLog, dialogueStore, replies>>

\* TTS lines 163-170: the collaborator returns n frames
TTSSucceed(n) ==
    /\ pcTTS = "synth"
    /\ UNCHANGED <<peerVars, iotVars, lifeVars, writerVars, failGhost, panicked>>
    /\ TTSDuration' = TTSDuration + n * FrameMs
    /\ ttsFrames' = [i \in 1..n |-> i]
    /\ pcTTS' = IF n = 0 THEN "endCheck" ELSE "emit"
    /\ UNCHANGED <<readLoopVars, chatVars, StartSpeakTime, ttsFrag, LLMFlag,
                   llmChan, ttsChan, responseChan, outLog, dialogueStore, replies>>

\* a synthesis stage that writes its frame to the connection itself
TTSEmit_WritesItself ==
    /\ pcTTS = "emit"
    /\ UNCHANGED <<peerVars, iotVars, lifeVars, pcWriter, wFrame, failGhost, panicked>>
    /\ writeTries' = writeTries + 1
    /\ written' = Append(written, Frame("audio", ttsFrag[1], ttsFrag[2], Head(ttsFrames)))
    /\ outLog' = Append(outLog, Frame("audio", ttsFrag[1], ttsFrag[2], Head(ttsFrames)))
    /\ ttsFrames' = Tail(ttsFrames)
    /\ pcTTS' = IF Tail(ttsFrames) = <<>> THEN "endCheck" ELSE "emit"
    /\ UNCHANGED <<readLoopVars, chatVars, paceVars, ttsFrag, LLMFlag,
                   llmChan, ttsChan, responseChan, dialogueStore, replies>>

\* handleTTS lines 210-220: the next frame is handed to sendResponse
TTSEmit ==
    /\ pcTTS = "emit"
    /\ UNCHANGED <<peerVars, iotVars, lifeVars, writerVars, failGhost>>
    /\ sendResponse(Frame("audio", ttsFrag[1], ttsFrag[2], Head(ttsFrames)))
    /\ ttsFrames' = Tail(ttsFrames)
    /\ pcTTS' = IF Tail(ttsFrames) = <<>> THEN "endCheck" ELSE "emit"
    /\ UNCHANGED <<readLoopVars, chatVars, paceVars, ttsFrag, LLMFlag,
                   llmChan, ttsChan, dialogueStore, replies>>

\* handleTTS line 222
ReplyFinished_QueueOnly == Len(ttsChan) = 0

ReplyFinished == ~LLMFlag /\ Len(ttsChan) = 0

\* a synthesis stage that clears the generation flag when it checks it
TTSEndCheck_ClearsLLMFlag ==
    /\ pcTTS = "endCheck"
    /\ UNCHANGED <<peerVars, iotVars, lifeVars, writerVars, failGhost, panicked>>
    /\ LLMFlag' = FALSE
    /\ pcTTS' = IF ReplyFinished THEN "endSpeak" ELSE "idle"
    /\ ttsFrag' = IF ReplyFinished THEN ttsFrag ELSE <<0, 0>>
    /\ UNCHANGED <<readLoopVars, chatVars, paceVars, ttsFrames,
                   llmChan, ttsChan, responseChan, outLog, dialogueStore, replies>>

\* handleTTS line 222-224: endSpeak is entered (and sleeps) or not
TTSEndCheck ==
    /\ pcTTS = "endCheck"
    /\ UNCHANGED <<peerVars, iotVars, lifeVars, writerVars, failGhost, panicked>>
    /\ pcTTS' = IF ReplyFinished THEN "endSpeak" ELSE "idle"
    /\ ttsFrag' = IF ReplyFinished THEN ttsFrag ELSE <<0, 0>>
    /\ UNCHANGED <<readLoopVars, chatVars, paceVars, ttsFrames, LLMFlag,
                   llmChan, ttsChan, responseChan, outLog, dialogueStore, replies>>

\* endSpeak after its sleep, and handleTTS lines 229-230
TTSEndSpeak ==
    /\ pcTTS = "endSpeak"
    /\ UNCHANGED <<peerVars, iotVars, lifeVars, writerVars, failGhost>>
    /\ sendResponse(Frame("stop", ttsFrag[1], 0, 0))
    /\ TTSDuration' = 0
    /\ StartSpeakTime' = 0
    /\ pcTTS' = "idle"
    /\ ttsFrag' = <<0, 0>>
    /\ UNCHANGED <<readLoopVars, chatVars, ttsFrames, LLMFlag,
                   llmChan, ttsChan, dialogueStore, replies>>

\* handleTTS lines 178-180: the select takes ctx.Done()
TTSExit ==
    /\ pcTTS = "idle"
    /\ ctxDone
    /\ pcTTS' = "exited"
    /\ UNCHANGED <<ttsFrag, ttsFrames>>
    /\ UNCHANGED <<readLoopVars, chatVars, paceVars, LLMFlag, llmChan, ttsChan,
                   responseChan, outLog, dialogueStore, replies>>
    /\ UNCHANGED <<peerVars, iotVars, lifeVars, writerVars, failGhost, panicked>>

----------------------------------------------------------------------------
(* The Response Writer: handleResponses *)

NoFrame == Frame("none", 0, 0, 0)

\* a writer that takes the newest frame of the queue
handleResponses_TakesNewest ==
    /\ pcWriter = "recv"
    /\ responseChan # <<>>
    /\ responseChan' = SubSeq(responseChan, 1, Len(responseChan) - 1)
    /\ wFrame' = responseChan[Len(responseChan)]
    /\ writeTries' = writeTries + 1
    /\ pcWriter' = "write"
    /\ UNCHANGED <<readLoopVars, paceVars, chatVars, ttsVars, LLMFlag, llmChan,
                   ttsChan, dialogueStore, replies, outLog>>
    /\ UNCHANGED <<peerVars, iotVars, lifeVars, written, failGhost, panicked>>

\* lines 281-289: a frame is received and handed to conn.WriteMessage
handleResponses ==
    /\ pcWriter = "recv"
    /\ responseChan # <<>>
    /\ responseChan' = Tail(responseChan)
    /\ wFrame' = Head(responseChan)
    /\ writeTries' = writeTries + 1
    /\ pcWriter' = "write"
    /\ UNCHANGED <<readLoopVars, paceVars, chatVars, ttsVars, LLMFlag, llmChan,
                   ttsChan, dialogueStore, replies, outLog>>
    /\ UNCHANGED <<peerVars, iotVars, lifeVars, written, failGhost, panicked>>

\* line 289: WriteMessage returns nil; a closed connection takes no write
WriteOK ==
    /\ pcWriter = "write"
    /\ connCloses = 0
    /\ written' = Append(written, wFrame)
    /\ wFrame' = NoFrame
    /\ pcWriter' = "recv"
    /\ UNCHANGED <<readLoopVars, paceVars, chatVars, ttsVars, LLMFlag, llmChan,
                   ttsChan, responseChan, dialogueStore, replies, outLog>>
    /\ UNCHANGED <<peerVars, iotVars, lifeVars, writeTries, failGhost, panicked>>

\* a writer that drops the frame of a failed write and goes on
WriteFail_GoesOn ==
    /\ pcWriter = "write"
    /\ wFrame' = NoFrame
    /\ pcWriter' = "recv"
    /\ UNCHANGED <<readLoopVars, paceVars, chatVars, ttsVars, LLMFlag, llmChan,
                   ttsChan, responseChan, dialogueStore, replies, outLog>>
    /\ UNCHANGED <<peerVars, iotVars, lifeVars, written, writeTries, failGhost, panicked>>

\* a writer that also closes the outbound queue when a write fails
WriteFail_ClosesQueue ==
    /\ pcWriter = "write"
    /\ ctxDone' = TRUE
    /\ cancelCalls' = cancelCalls + 1
    /\ chanCloses' = chanCloses + 1
    /\ wFrame' = NoFrame
    /\ pcWriter' = "exited"
    /\ UNCHANGED <<readLoopVars, paceVars, chatVars, ttsVars, LLMFlag, llmChan,
                   ttsChan, responseChan, dialogueStore, replies, outLog>>
    /\ UNCHANGED <<peerVars, iotVars, authEnabled, authLog, connCloses, written, writeTries,
                   failGhost, panicked>>

\* lines 290-295: WriteMessage returns an error; cancelFunc, return
WriteFail ==
    /\ pcWriter = "write"
    /\ ctxDone' = TRUE
    /\ cancelCalls' = cancelCalls + 1
    /\ wFrame' = NoFrame
    /\ pcWriter' = "exited"
    /\ UNCHANGED <<readLoopVars, paceVars, chatVars, ttsVars, LLMFlag, llmChan,
                   ttsChan, responseChan, dialogueStore, replies, outLog>>
    /\ UNCHANGED <<peerVars, iotVars, authEnabled, authLog, connCloses, chanCloses, written, writeTries,
                   failGhost, panicked>>

\* lines 276-286: the select takes ctx.Done(), or the receive finds the
\* channel closed and drained
WriterExit ==
    /\ pcWriter = "recv"
    /\ ctxDone \/ (chanCloses > 0 /\ responseChan = <<>>)
    /\ pcWriter' = "exited"
    /\ UNCHANGED <<readLoopVars, paceVars, chatVars, ttsVars, LLMFlag, llmChan,
                   ttsChan, responseChan, dialogueStore, replies, outLog>>
    /\ UNCHANGED <<peerVars, iotVars, lifeVars, wFrame, written, writeTries, failGhost, panicked>>

----------------------------------------------------------------------------
(* The protocol codec and the control commands: handleTextMessage *)

\* a text message as json.Unmarshal sees it: whether it decodes into a
\* ConnectionCommand, and the fields the handlers read
Text(parses, type, mode, state, payload) ==
    [parses |-> parses, type |-> type, mode |-> mode, state |-> state,
     payload |-> payload]

IotPayloads == {1, 2}

TextMessages ==
    {Text(FALSE, "", "", "", 0)}
    \cup {Text(TRUE, t, "", "", 0) : t \in {"hello", "abort", "", "ping"}}
    \cup {Text(TRUE, "listen", m, st, 0) :
             m \in {"", "auto", "manual"}, st \in {"start", "stop", "detect", "pause"}}
    \cup {Text(TRUE, "iot", "", "", p) : p \in IotPayloads}

\* a hello reply without the sample rate
HelloFrame_NoRate == Frame("hello", 0, 0, 0)

\* the hello reply, lines 415-421; idx carries audio_params.sample_rate
HelloFrame == Frame("hello", 0, 0, SampleRate)

\* what the handlers of hello, iot and of a rejected message leave alone
ctlRest == <<peerVars, asrText, segGhost, abortGhost, pipeVars, llmChan, routed, now, asrCalls,
             lifeVars, writerVars, failGhost, panicked>>

\* lines 413-426: the reply is built and handed to sendResponse
handleHello ==
    /\ pcRead = "read"
    /\ pcRead' = "sendHello"
    /\ UNCHANGED <<connVars, iotVars, ctlRest>>

sendHello ==
    /\ pcRead = "sendHello"
    /\ sendResponse(HelloFrame)
    /\ pcRead' = LoopTop
    /\ UNCHANGED <<peerVars, iotVars, lifeVars, writerVars, failGhost>>
    /\ UNCHANGED <<connVars, asrText, segGhost, abortGhost, llmChan, routed, now, asrCalls>>
    /\ UNCHANGED <<paceVars, chatVars, ttsVars, LLMFlag, ttsChan, dialogueStore, replies>>

\* lines 428-433: States and Description are stored as they came
handleIot(payload) ==
    /\ pcRead = "read"
    /\ States' = payload
    /\ Description' = payload
    /\ pcRead' = LoopTop
    /\ UNCHANGED <<connVars, ctlRest>>

\* lines 408-410 and 472-474, then HandleConnection lines 579-581:
\* json.Unmarshal fails or the type is none of the four; the error comes
\* back to the read loop, which logs it
rejectText ==
    /\ pcRead = "read"
    /\ pcRead' = "logError"
    /\ UNCHANGED <<connVars, iotVars, ctlRest>>

\* a read loop that returns on the error
continueLoop_Returns ==
    /\ pcRead = "logError"
    /\ pcRead' = "closeConn"
    /\ UNCHANGED <<connVars, iotVars, ctlRest>>

\* HandleConnection lines 582-585: the message was no close message; continue
continueLoop ==
    /\ pcRead = "logError"
    /\ pcRead' = LoopTop
    /\ UNCHANGED <<connVars, iotVars, ctlRest>>

\* handleTextMessage(data), lines 405-477
handleTextMessage(m) ==
    IF ~m.parses
    THEN rejectText
    ELSE CASE m.type = "hello"  -> handleHello
           [] m.type = "iot"    -> handleIot(m.payload)
           [] m.type = "abort"  -> handleAbort
           [] m.type = "listen" -> handleListen(m.mode, m.state)
           [] OTHER             -> rejectText

----------------------------------------------------------------------------
(* The Session: HandleConnection around the message handlers *)

\* everything HandleConnection's own steps leave alone
sessionRest == <<peerVars, connVars, iotVars, asrText, segGhost, abortGhost, pipeVars, llmChan, routed,
                 now, asrCalls, writerVars, failGhost, panicked>>

\* lines 535-541: the read of the authentication message fails
AuthReadFails ==
    /\ pcRead = "auth"
    /\ pcRead' = "closeConn"
    /\ UNCHANGED <<sessionRest, lifeVars>>

\* lines 543-552: the message is one of the configured tokens
AuthAccept ==
    /\ pcRead = "auth"
    /\ authLog' = Append(authLog, "ok")
    /\ pcRead' = LoopTop
    /\ UNCHANGED <<sessionRest, authEnabled, ctxDone, connCloses, chanCloses, cancelCalls>>

\* a session that goes on to its read loop with a message that is no token
AuthReject_EntersLoop ==
    /\ pcRead = "auth"
    /\ authLog' = Append(authLog, "rejected")
    /\ pcRead' = LoopTop
    /\ UNCHANGED <<sessionRest, authEnabled, ctxDone, connCloses, chanCloses, cancelCalls>>

\* lines 555-558: it is not
AuthReject ==
    /\ pcRead = "auth"
    /\ authLog' = Append(authLog, "rejected")
    /\ pcRead' = "closeConn"
    /\ UNCHANGED <<sessionRest, authEnabled, ctxDone, connCloses, chanCloses, cancelCalls>>

\* lines 571-575: ReadMessage returns an error
ReadFails ==
    /\ pcRead = "read"
    /\ pcRead' = "closeConn"
    /\ UNCHANGED <<sessionRest, lifeVars>>

\* lines 579-585: processMessage returns an error for a message that is not
\* a close message (a text that does not parse, an unknown command type, an
\* unknown message type); it is logged and the loop continues
handleBadMessage ==
    /\ pcRead = "read"
    /\ pcRead' = LoopTop
    /\ UNCHANGED <<sessionRest, lifeVars>>

\* the deferred function, line 527
CloseConn ==
    /\ pcRead = "closeConn"
    /\ connCloses' = connCloses + 1
    /\ pcRead' = "cancel"
    /\ UNCHANGED <<sessionRest, authEnabled, authLog, ctxDone, chanCloses, cancelCalls>>

\* line 529
Cancel ==
    /\ pcRead = "cancel"
    /\ ctxDone' = TRUE
    /\ cancelCalls' = cancelCalls + 1
    /\ pcRead' = "closeChan"
    /\ UNCHANGED <<sessionRest, authEnabled, authLog, connCloses, chanCloses>>

\* line 531
CloseChan ==
    /\ pcRead = "closeChan"
    /\ chanCloses' = chanCloses + 1
    /\ pcRead' = "exited"
    /\ UNCHANGED <<sessionRest, authEnabled, authLog, ctxDone, connCloses, cancelCalls>>

----------------------------------------------------------------------------
(* NewWebSocketConnection, and HandleConnection up to its first read; auth is
   config.WebSocket.Auth.Enabled *)
NewWebSocketConnection(auth) ==
    /\ authEnabled = auth
    /\ authLog = <<>>
    /\ pcRead = IF auth THEN "auth" ELSE "read"
    /\ asrText = 0
    /\ ClientAbort = FALSE
    /\ ClientListenMode = "auto"
    /\ ClientAudioBuffer = 0
    /\ ClientHaveVoice = FALSE
    /\ ClientHaveVoiceLastTime = 0
    /\ ClientNoVoiceLastTime = 0
    /\ ClientVoiceStop = FALSE
    /\ ASRAudio = <<>>
    /\ ASRServerReceive = TRUE
    /\ States = 0
    /\ Description = 0
    /\ LLMFlag = FALSE
    /\ StartSpeakTime = 0
    /\ TTSDuration = 0
    /\ llmChan = <<>>
    /\ ttsChan = <<>>
    /\ responseChan = <<>>
    /\ dialogueStore = <<>>
    /\ pcChat = "idle"
    /\ chatReply = 0
    /\ chatFrags = 0
    /\ pcTTS = "idle"
    /\ ttsFrag = <<0, 0>>
    /\ ttsFrames = <<>>
    /\ now = T0
    /\ asrCalls = 0
    /\ routed = <<>>
    /\ replies = 0
    /\ outLog = <<>>
    /\ vsRose = FALSE
    /\ refOpen = FALSE
    /\ refLastVoice = 0
    /\ refRose = FALSE
    /\ abortedUpTo = 0
    /\ abortedGen = 0
    /\ pcWriter = "recv"
    /\ wFrame = NoFrame
    /\ ctxDone = FALSE
    /\ connCloses = 0
    /\ chanCloses = 0
    /\ cancelCalls = 0
    /\ panicked = FALSE
    /\ written = <<>>
    /\ writeTries = 0
    /\ idleMarked = FALSE
    /\ genFailed = {}
    /\ ttsFailed = {}

\* a server without authentication
(* The server process: the package-level mutexes of vad and asr are unlocked
   and every open session's read loop waits for a frame with an empty
   utterance queue. *)
NumSessions == 2

Sessions == 1..NumSessions

Packages ==
    /\ vadMutex = 0
    /\ asrMutex = 0
    /\ peers = [s \in Sessions |-> [pc |-> "read", ASRAudio |-> 0]]

Init == Packages /\ NewWebSocketConnection(FALSE)

\* either configuration
InitAny == Packages /\ \E auth \in BOOLEAN : NewWebSocketConnection(auth)

(* The device, as the read loop sees it *)

\* the device streams audio: any frame, any classification of its windows
RecvAudio ==
    /\ asrCalls < MaxUtter
    /\ Len(ASRAudio) < MaxChunks
    /\ \E f \in AudioFrames :
          IF ClientListenMode = "auto" /\ ASRServerReceive
          THEN \E rs \in BoolSeqs(NumWindows(f.pcm)) : handleAudioMessage(f, rs)
          ELSE handleAudioMessage(f, <<>>)

RecvListen ==
    \E mode \in {"", "auto", "manual"}, state \in {"start", "stop", "detect"} :
        handleListen(mode, state)

ASRReturn == ASRFail \/ ASRSucceed

(* The read loop alone: the segmenter and the dispatcher, in every listen mode *)
NextRead == RecvAudio \/ RecvListen \/ ASRReturn \/ send2LLM \/ Tick
SpecRead == Init /\ [][NextRead]_vars

(* The read loop of a device that stays in auto mode *)
NextAuto == RecvAudio \/ ASRReturn \/ send2LLM \/ Tick
SpecAuto == Init /\ [][NextAuto]_vars

(* A push-to-talk device: listen start, audio, listen stop, audio; it may
   send abort *)
PTTStartUpTo(n) == asrCalls < n /\ ~ClientHaveVoice /\ handleListen("manual", "start")

PTTStart == PTTStartUpTo(MaxUtter)

PTTStop  ==
    /\ ClientHaveVoice /\ ~ClientVoiceStop
    /\ Len(ASRAudio) >= MinChunks - 1
    /\ handleListen("", "stop")

PTTAudioUpTo(n) ==
    /\ ClientListenMode = "manual"
    /\ ClientHaveVoice
    /\ asrCalls < n
    /\ Len(ASRAudio) < MaxChunks
    /\ \E f \in AudioFrames : handleAudioMessage(f, <<>>)

PTTAudio == PTTAudioUpTo(MaxUtter)

AbortsSoFar == Len(SelectSeq(outLog, LAMBDA fr : fr.kind = "abortStop"))

RecvAbort == AbortsSoFar < MaxAborts /\ handleAbort

TTSReturn == TTSFail \/ \E n \in {MaxFrames} : TTSSucceed(n)

(* The whole session of a push-to-talk device *)
NextPipe ==
    \/ PTTStart \/ PTTStop \/ PTTAudio \/ RecvAbort \/ sendAbortStop
    \/ ASRReturn \/ send2LLM
    \/ ChatRecv \/ ChatStartSpeak \/ LLMRequestFail \/ LLMRequestOK
    \/ LLMCheckAbort \/ LLMStreaming \/ LLMOtherLine \/ LLMComplete \/ LLMStreamEnds
    \/ TTSRecv \/ TTSReturn \/ TTSEmit \/ TTSEndCheck \/ TTSEndSpeak
    \/ handleResponses \/ WriteOK
SpecPipe == Init /\ [][NextPipe]_vars

(* The session of a push-to-talk device that sends no abort and speaks
   MaxTurns utterances *)
PTTStartTurn == PTTStartUpTo(MaxTurns)

PTTAudioTurn == PTTAudioUpTo(MaxTurns)

NextReply ==
    \/ PTTStartTurn \/ PTTStop \/ PTTAudioTurn
    \/ ASRReturn \/ send2LLM
    \/ ChatRecv \/ ChatStartSpeak \/ LLMRequestFail \/ LLMRequestOK
    \/ LLMCheckAbort \/ LLMStreaming \/ LLMOtherLine \/ LLMComplete \/ LLMStreamEnds
    \/ TTSRecv \/ TTSReturn \/ TTSEmit \/ TTSEndCheck \/ TTSEndSpeak
    \/ handleResponses \/ WriteOK
SpecReply == Init /\ [][NextReply]_vars

(* A push-to-talk device that also sends large frames *)
PTTLargeAudio ==
    /\ ClientListenMode = "manual"
    /\ ClientHaveVoice
    /\ asrCalls < MaxUtter
    /\ Len(ASRAudio) < MaxChunks
    /\ \E f \in AudioFrames \cup LargeFrames : handleAudioMessage(f, <<>>)

NextLarge == PTTStart \/ PTTStop \/ PTTLargeAudio \/ ASRReturn \/ send2LLM \/ Tick
SpecLarge == Init /\ [][NextLarge]_vars

(* The read loop of an auto-mode device, with the ways the session ends: a
   read failure, then the deferred teardown; the other tasks leave when the
   context is cancelled *)
Teardown == CloseConn \/ Cancel \/ CloseChan

NextIdle ==
    \/ RecvAudio \/ ASRReturn \/ send2LLM \/ Tick
    \/ ReadFails \/ Teardown
    \/ ChatExit \/ TTSExit \/ WriterExit
SpecIdle == Init /\ [][NextIdle]_vars

(* A device that sends control frames only: any text message, while fewer
   than MaxCtlFrames frames have been enqueued; the writer, a failing write,
   a failing read and the teardown *)
RecvText ==
    /\ Len(outLog) < MaxCtlFrames
    /\ \E m \in TextMessages : handleTextMessage(m)

NextCtl ==
    \/ RecvText \/ sendHello \/ sendAbortStop \/ continueLoop
    \/ handleResponses \/ WriteOK \/ WriteFail
    \/ ReadFails \/ Teardown
    \/ ChatExit \/ TTSExit \/ WriterExit
SpecCtl == Init /\ [][NextCtl]_vars

(* The whole life of a session of a push-to-talk device: authentication if
   configured, LifeTurns utterances, messages the codec rejects, transport
   failures in both directions, teardown.  The device takes turns: it starts
   an utterance only when nothing of an earlier reply is left in the
   pipeline.  A panic is recorded in `panicked`; the steps the other tasks
   could have taken without it stay in the model. *)
Authenticate == AuthReadFails \/ AuthAccept \/ AuthReject

Drained ==
    /\ pcChat \in {"idle", "exited"}
    /\ pcTTS \in {"idle", "exited"}
    /\ pcWriter \in {"recv", "exited"}
    /\ llmChan = <<>> /\ ttsChan = <<>> /\ responseChan = <<>>

PTTStartLife == Drained /\ PTTStartUpTo(LifeTurns)

PTTAudioLife == PTTAudioUpTo(LifeTurns)

LLMStreamingLife == LLMStreamingUpTo(LifeFrags)

TTSReturnLife == TTSFail \/ TTSSucceed(LifeFrames)

NextLife ==
    \/ Authenticate
    \/ PTTStartLife \/ PTTStop \/ PTTAudioLife \/ handleBadMessage
    \/ ASRReturn \/ send2LLM
    \/ ChatRecv \/ ChatStartSpeak \/ LLMRequestFail \/ LLMRequestOK
    \/ LLMCheckAbort \/ LLMStreamingLife \/ LLMOtherLine \/ LLMComplete \/ LLMStreamEnds
    \/ TTSRecv \/ TTSReturnLife \/ TTSEmit \/ TTSEndCheck \/ TTSEndSpeak
    \/ handleResponses \/ WriteOK \/ WriteFail
    \/ ReadFails \/ Teardown
    \/ ChatExit \/ TTSExit \/ WriterExit
SpecLife == InitAny /\ [][NextLife]_vars

(* A push-to-talk device that speaks once and may interrupt the reply: one
   utterance, abort commands at any time, and a write that may fail *)
FirstUtterance == asrCalls = 0

PTTStartOnce == FirstUtterance /\ ~ClientHaveVoice /\ handleListen("manual", "start")

PTTAudioOnce ==
    /\ FirstUtterance
    /\ ClientListenMode = "manual"
    /\ ClientHaveVoice
    /\ Len(ASRAudio) < MaxChunks
    /\ \E f \in AudioFrames : handleAudioMessage(f, <<>>)

NextBarge ==
    \/ PTTStartOnce \/ PTTStop \/ PTTAudioOnce \/ RecvAbort \/ sendAbortStop
    \/ ASRReturn \/ send2LLM
    \/ ChatRecv \/ ChatStartSpeak \/ LLMRequestFail \/ LLMRequestOK
    \/ LLMCheckAbort \/ LLMStreamingLife \/ LLMOtherLine \/ LLMComplete \/ LLMStreamEnds
    \/ TTSRecv \/ TTSReturnLife \/ TTSEmit \/ TTSEndCheck \/ TTSEndSpeak
    \/ handleResponses \/ WriteOK \/ WriteFail
SpecBarge == Init /\ [][NextBarge]_vars

(* One utterance answered by a long stream: more fragments than ttsChan
   holds, with a synthesis collaborator that answers every call but may be
   slow *)
BurstFrags == 11

LLMStreamingBurst == LLMStreamingUpTo(BurstFrags)

TTSReturnBurst == TTSSucceed(LifeFrames)

NextBurst ==
    \/ PTTStartOnce \/ PTTStop \/ PTTAudioOnce
    \/ ASRReturn \/ send2LLM
    \/ ChatRecv \/ ChatStartSpeak \/ LLMRequestFail \/ LLMRequestOK
    \/ LLMCheckAbort \/ LLMStreamingBurst \/ LLMOtherLine \/ LLMComplete \/ LLMStreamEnds
    \/ TTSRecv \/ TTSReturnBurst \/ TTSEmit \/ TTSEndCheck \/ TTSEndSpeak
    \/ handleResponses \/ WriteOK
SpecBurst == Init /\ [][NextBurst]_vars

----------------------------------------------------------------------------
(* Several sessions in one server.  Each session has its own connection state
   (here: the length of its utterance queue) and its own read loop; the vad
   and asr packages each keep one processor and one mutex for the whole
   process, and IsVAD and ProcessASR hold the mutex for the length of the
   call to the service.  The read loop is followed in auto mode from one
   lock operation to the next. *)

oneSession == <<connVars, iotVars, readVars, segGhost, abortGhost, paceVars, chatVars, ttsVars,
                LLMFlag, llmChan, ttsChan, responseChan, dialogueStore, now,
                asrCalls, routed, replies, outLog,
                lifeVars, writerVars, failGhost, panicked>>

At(s, pc, queued) == [peers EXCEPT ![s] = [pc |-> pc, ASRAudio |-> queued]]

\* handleAudioMessage lines 337-338: a frame arrives and the read loop calls
\* IsVAD, which starts with vadMutex.Lock()
PeerFrame(s) ==
    /\ peers[s].pc = "read"
    /\ peers' = At(s, "vadLock", peers[s].ASRAudio)
    /\ UNCHANGED <<vadMutex, asrMutex, oneSession>>

\* IsVAD line 88: Lock returns once no session holds the mutex
PeerVadLock(s) ==
    /\ peers[s].pc = "vadLock"
    /\ vadMutex = 0
    /\ vadMutex' = s
    /\ peers' = At(s, "vadCall", peers[s].ASRAudio)
    /\ UNCHANGED <<asrMutex, oneSession>>

\* IsVAD lines 89-100 and handleAudioMessage lines 344-399: the service
\* answers, the mutex is released; the frame is dropped with the queue, or
\* queued, and with voice-stop set the utterance is too short and reset, or
\* ProcessASR is called, which starts with asrMutex.Lock()
PeerVadReturn(s) ==
    /\ peers[s].pc = "vadCall"
    /\ vadMutex' = 0
    /\ \/ peers' = At(s, "read", 0)
       \/ /\ peers[s].ASRAudio < MaxChunks
          /\ \/ peers' = At(s, "read", peers[s].ASRAudio + 1)
             \/ /\ peers[s].ASRAudio + 1 >= MinChunks
                /\ peers' = At(s, "asrLock", peers[s].ASRAudio + 1)
    /\ UNCHANGED <<asrMutex, oneSession>>

\* ProcessASR line 98
PeerAsrLock(s) ==
    /\ peers[s].pc = "asrLock"
    /\ asrMutex = 0
    /\ asrMutex' = s
    /\ peers' = At(s, "asrCall", peers[s].ASRAudio)
    /\ UNCHANGED <<vadMutex, oneSession>>

\* ProcessASR lines 99-128 and handleAudioMessage lines 379-394: the
\* service answers, the mutex is released and the queue is reset
PeerAsrReturn(s) ==
    /\ peers[s].pc = "asrCall"
    /\ asrMutex' = 0
    /\ peers' = At(s, "read", 0)
    /\ UNCHANGED <<vadMutex, oneSession>>

PeerFrames == \E s \in Sessions : PeerFrame(s)
PeerVadLocks == \E s \in Sessions : PeerVadLock(s)
PeerVadReturns == \E s \in Sessions : PeerVadReturn(s)
PeerAsrLocks == \E s \in Sessions : PeerAsrLock(s)
PeerAsrReturns == \E s \in Sessions : PeerAsrReturn(s)

NextPeers == PeerFrames \/ PeerVadLocks \/ PeerVadReturns \/ PeerAsrLocks \/ PeerAsrReturns
SpecPeers == Init /\ [][NextPeers]_vars

----------------------------------------------------------------------------
(* Claims about the read loop *)

\* C1: whenever the recognition collaborator call fails, then once the read
\* loop has finished handling that audio frame the utterance queue is empty,
\* accepting-audio is true again and no text has been routed.
C1_FailureRestoresAcceptance ==
    [][ (pcRead = "asr" /\ pcRead' = "read")
          => (ASRAudio' = <<>> /\ ASRServerReceive' /\ routed' = routed) ]_vars

\* C2: in every reachable state accepting-audio is false while the read loop
\* is inside a recognition collaborator call and true whenever the read loop
\* is between two frames.
C2_AcceptingExceptDuringRecognition ==
    /\ pcRead = "asr" => ~ASRServerReceive
    /\ pcRead = "read" => ASRServerReceive

\* C8: in auto mode voice-stop goes from false to true in exactly the frames
\* in which the reference segmenter sees a silence gap of at least the
\* threshold after a voiced run: once per utterance, and not again before a
\* new voiced window.
C8_VoiceStopOncePerUtterance == vsRose = refRose

C8_Witness ==
    /\ vsRose /\ refRose /\ ~refOpen
    /\ ClientListenMode = "auto"

\* C9: when an utterance of at least 3 chunks completes and the recognition
\* collaborator succeeds, one recognition call was made for it, and when the
\* read loop has handled the frame the utterance queue is empty, has-voice
\* and voice-stop are false, accepting-audio is true and the text has been
\* routed to llmChan exactly once.
C9_SuccessfulDispatch ==
    /\ [][ asrCalls' # asrCalls
             => /\ pcRead = "read" /\ pcRead' = "asr"
                /\ asrCalls' = asrCalls + 1
                /\ Len(ASRAudio') >= 3 ]_vars
    /\ [][ (pcRead = "asr" /\ pcRead' = "send2LLM")
             => (asrText' = asrCalls /\ asrCalls' = asrCalls /\ routed' = routed) ]_vars
    /\ [][ (pcRead = "send2LLM" /\ pcRead' # "send2LLM")
             => /\ pcRead' = "read"
                /\ ASRAudio' = <<>>
                /\ ~ClientHaveVoice' /\ ~ClientVoiceStop'
                /\ ASRServerReceive'
                /\ asrCalls' = asrCalls
                /\ routed' = Append(routed, asrCalls)
                /\ llmChan' = Append(llmChan, asrCalls) ]_vars
    /\ [][ routed' # routed => (pcRead = "send2LLM" /\ pcRead' = "read") ]_vars

C9_Witness ==
    /\ pcRead = "read"
    /\ asrCalls = 1 /\ routed = <<1>>
    /\ ASRAudio = <<>> /\ ~ClientHaveVoice /\ ~ClientVoiceStop
    /\ ASRServerReceive

\* C10: an utterance that completes with fewer than 3 chunks in the queue is
\* discarded without a recognition call: queue and voice flags are cleared
\* and accepting-audio is true afterwards; the collaborator is only ever
\* called with at least 3 chunks queued.
C10_ShortUtteranceDiscarded ==
    /\ [][ asrCalls' # asrCalls => Len(ASRAudio') >= 3 ]_vars
    /\ [][ ( /\ RecvAudio
             /\ ASRServerReceive
             /\ ClientVoiceStop \/ vsRose'
             /\ ClientNoVoiceLastTime' = 0
             /\ Len(ASRAudio) + 1 < 3 )
           => /\ pcRead' = "read" /\ asrCalls' = asrCalls
              /\ ASRAudio' = <<>>
              /\ ~ClientHaveVoice' /\ ~ClientVoiceStop'
              /\ ASRServerReceive' ]_vars

C10_Witness ==
    /\ vsRose
    /\ pcRead = "read" /\ asrCalls = 0
    /\ ASRAudio = <<>> /\ ~ClientHaveVoice /\ ~ClientVoiceStop
    /\ ASRServerReceive

\* C11: when dispatch is attempted with more buffered utterance bytes than
\* the configured maximum, no recognition call is made, the utterance queue
\* is cleared and accepting-audio is true again when the frame is handled.
C11_TooLargeClearsAndReaccepts ==
    [][ \A f \in AudioFrames \cup LargeFrames :
          ( /\ handleAudioMessage(f, <<>>)
            /\ ASRServerReceive /\ ClientListenMode # "auto"
            /\ ClientHaveVoice /\ ClientVoiceStop
            /\ SumSeq(ASRAudio) + f.len > MaxAudioSize )
          => ( /\ asrCalls' = asrCalls /\ pcRead' # "asr"
               /\ ASRAudio' = <<>>
               /\ ASRServerReceive' ) ]_vars

\* C12: once the no-voice timer has exceeded the idle-close threshold and the
\* session is marked, the cancellation is triggered: when the read loop is
\* back waiting for the next frame (nothing of the session is left running
\* that could still trigger it) the context is cancelled.
C12_IdleTriggersCancellation ==
    (idleMarked /\ pcRead = "read") => ctxDone

----------------------------------------------------------------------------
(* Claims about the life of a session *)

\* the steps the session takes on its own: everything but the arrival of an
\* inbound frame and a failure of the read
OwnSteps ==
    \/ ASRReturn \/ send2LLM
    \/ ChatRecv \/ ChatStartSpeak \/ LLMRequestFail \/ LLMRequestOK
    \/ LLMCheckAbort \/ LLMStreamingLife \/ LLMOtherLine \/ LLMComplete \/ LLMStreamEnds
    \/ TTSRecv \/ TTSReturnLife \/ TTSEmit \/ TTSEndCheck \/ TTSEndSpeak
    \/ handleResponses \/ WriteOK \/ WriteFail
    \/ Teardown
    \/ ChatExit \/ TTSExit \/ WriterExit

AllExited ==
    pcRead = "exited" /\ pcChat = "exited" /\ pcTTS = "exited" /\ pcWriter = "exited"

\* C13: after the cancellation has been triggered each of the four tasks
\* exits without a further frame from the device: once the context is
\* cancelled and no task has a step of its own left (every collaborator call
\* has returned), all four tasks have exited.
C13_AllTasksExitAfterCancel ==
    (ctxDone /\ ~panicked /\ ~ENABLED OwnSteps) => AllExited

\* what a call of cancelFunc on a cancelled context must leave alone:
\* everything but the caller's own position
cancelRest == <<peerVars, connVars, iotVars, asrText, segGhost, abortGhost, pipeVars, llmChan, routed,
                now, asrCalls, authEnabled, authLog, ctxDone, connCloses, chanCloses,
                written, writeTries, failGhost, panicked>>

\* C14: triggering the cancellation again (the writer after a failed write
\* and the read loop's teardown, in either order) changes nothing: the
\* connection and the outbound queue are closed at most once, exactly once
\* when the read loop has left, and the second trigger causes no close and
\* no panic.
C14_CancelIdempotent ==
    /\ [](connCloses <= 1 /\ chanCloses <= 1)
    /\ [](pcRead = "exited" => (connCloses = 1 /\ chanCloses = 1 /\ ctxDone))
    /\ [][ cancelCalls' # cancelCalls
             => /\ cancelCalls' = cancelCalls + 1
                /\ ctxDone'
                /\ UNCHANGED <<connCloses, chanCloses, panicked, responseChan>>
                /\ ctxDone => UNCHANGED cancelRest ]_vars

C14_Witness ==
    /\ cancelCalls = 2
    /\ pcRead = "exited" /\ pcWriter = "exited"
    /\ connCloses = 1 /\ chanCloses = 1
    /\ ~panicked

\* the positions of the three tasks that are not the Response Writer
otherTasks == <<pcRead, pcChat, pcTTS>>

\* C15: a physical write (an attempt counted in writeTries, a frame put in
\* written) only happens in a step of the Response Writer, in which no other
\* task moves; at most one write is in progress; a step of the read loop,
\* the generation stage or the synthesis stage that hands over a frame only
\* appends it to the outbound queue.
C15_OnlyWriterWrites ==
    /\ [](writeTries \in {Len(written), Len(written) + 1})
    /\ []((writeTries = Len(written) + 1 /\ pcWriter # "exited") => pcWriter = "write")
    /\ [][ (written' # written \/ writeTries' # writeTries)
             => /\ pcWriter = "write" \/ pcWriter' = "write"
                /\ UNCHANGED otherTasks ]_vars
    /\ [][ outLog' # outLog
             => /\ UNCHANGED <<written, writeTries, pcWriter, wFrame>>
                /\ responseChan' = Append(responseChan, outLog'[Len(outLog')]) ]_vars

C15_Witness ==
    /\ Len(written) >= 1
    /\ pcWriter = "write"
    /\ pcTTS = "endSpeak"
    /\ Len(outLog) = writeTries

\* C16: the frames written to the device are a prefix of the frames
\* enqueued, in the same order; every dequeued frame gets exactly one write
\* attempt, the frame being written is the next enqueued one, and what is
\* still queued is the rest of the enqueued frames (nothing reordered,
\* duplicated or skipped).
C16_WrittenIsPrefixOfEnqueued ==
    /\ Len(written) <= Len(outLog)
    /\ written = SubSeq(outLog, 1, Len(written))
    /\ writeTries = Len(outLog) - Len(responseChan)
    /\ responseChan = SubSeq(outLog, writeTries + 1, Len(outLog))
    /\ pcWriter = "write" => (writeTries = Len(written) + 1 /\ wFrame = outLog[writeTries])
    /\ pcWriter = "recv" => writeTries = Len(written)

C16_Witness ==
    /\ Len(written) >= 1
    /\ pcWriter = "write"
    /\ Len(responseChan) >= 1

\* the step in which a physical write fails: the writer leaves its write
\* without the frame having been written
WriteFailed == pcWriter = "write" /\ pcWriter' # "write" /\ written' = written

\* C17: the step in which a write fails triggers the cancellation and ends
\* the Response Writer; an exited writer stays exited, makes no further write
\* attempt and takes no further frame off the queue.
C17_WriteFailureStopsWriter ==
    /\ [][ WriteFailed
             => /\ pcWriter' = "exited"
                /\ ctxDone' /\ cancelCalls' = cancelCalls + 1
                /\ UNCHANGED <<writeTries, responseChan>> ]_vars
    /\ [][ pcWriter = "exited"
             => /\ pcWriter' = "exited"
                /\ UNCHANGED <<written, writeTries>>
                /\ Len(responseChan') >= Len(responseChan) ]_vars
    /\ []((pcWriter = "exited" /\ writeTries > Len(written)) => ctxDone)

C17_Witness ==
    /\ pcWriter = "exited"
    /\ writeTries = Len(written) + 1
    /\ Len(written) >= 1
    /\ Len(responseChan) >= 1
    /\ ctxDone

\* the read loop has left its loop and runs the deferred function
InTeardown == pcRead \in {"closeConn", "cancel", "closeChan", "exited"}

\* the steps in which a message is rejected or a collaborator call fails
ErrorSteps ==
    \/ handleBadMessage \/ ASRFail
    \/ LLMRequestFail \/ LLMStreamEnds
    \/ TTSFail

\* C18: a step in which a decode, recognition, generation or synthesis
\* error is handled neither triggers the cancellation nor makes the read
\* loop leave; the cancellation is triggered only by a failed write or by
\* the read loop's own teardown, and the read loop starts its teardown only
\* from the authentication, from a failed read, or on a context that was
\* already cancelled.
C18_OnlyTransportOrAuthTerminates ==
    /\ [][ ErrorSteps
             => /\ UNCHANGED <<ctxDone, cancelCalls, connCloses, chanCloses>>
                /\ InTeardown' => (InTeardown \/ ctxDone) ]_vars
    /\ [][ cancelCalls' # cancelCalls => (WriteFailed \/ pcRead = "cancel") ]_vars
    /\ [][ ctxDone' # ctxDone => cancelCalls' # cancelCalls ]_vars
    /\ [][ (InTeardown' /\ ~InTeardown)
             => (pcRead = "auth" \/ pcRead = "read" \/ ctxDone) ]_vars

C18_Witness ==
    /\ genFailed # {}
    /\ ttsFailed # {}
    /\ asrCalls >= 1
    /\ ~ctxDone /\ cancelCalls = 0
    /\ pcRead = "read" /\ pcChat = "idle" /\ pcTTS = "idle" /\ pcWriter = "recv"

\* C19: no assistant turn is appended to the dialogue history for a reply
\* whose generation call failed or ended without a complete event, or one
\* of whose synthesis calls has failed; and handling such a failure leaves
\* the session open.
C19_NoAssistantTurnForFailedReply ==
    /\ [][ Len(dialogueStore') > Len(dialogueStore)
             => LET turn == dialogueStore'[Len(dialogueStore')]
                IN  turn.role = "assistant"
                       => turn.content \notin (genFailed \cup ttsFailed) ]_vars
    /\ [][ (LLMRequestFail \/ LLMStreamEnds \/ TTSFail)
             => UNCHANGED <<pcRead, ctxDone, cancelCalls>> ]_vars

\* nothing of the session has been used: the connection state, the queues,
\* the history and the counters are as NewWebSocketConnection left them
Untouched ==
    /\ ~ClientAbort /\ ClientListenMode = "auto" /\ ClientAudioBuffer = 0
    /\ ~ClientHaveVoice /\ ClientHaveVoiceLastTime = 0 /\ ClientNoVoiceLastTime = 0
    /\ ~ClientVoiceStop /\ ASRAudio = <<>> /\ ASRServerReceive
    /\ States = 0 /\ Description = 0
    /\ asrCalls = 0 /\ asrText = 0 /\ routed = <<>>
    /\ llmChan = <<>> /\ ttsChan = <<>> /\ responseChan = <<>>
    /\ dialogueStore = <<>> /\ replies = 0
    /\ outLog = <<>> /\ writeTries = 0 /\ written = <<>>

\* C20: the token is checked at most once and only with authentication
\* enabled; the read loop is entered only after an accepted check; after a
\* rejected check the read loop is in its teardown, the connection is closed
\* by the time it has left, nothing was routed to a handler, no collaborator
\* was called and no outbound frame was enqueued.
C20_RejectedTokenRoutesNothing ==
    /\ Len(authLog) <= 1
    /\ ~authEnabled => authLog = <<>>
    /\ (authEnabled /\ pcRead # "auth" /\ ~InTeardown) => authLog = <<"ok">>
    /\ pcRead = "auth" => (authLog = <<>> /\ Untouched)
    /\ authLog = <<"rejected">>
          => /\ InTeardown
             /\ Untouched
             /\ pcRead \in {"cancel", "closeChan", "exited"} => connCloses = 1

C20_Witness ==
    /\ authEnabled
    /\ authLog = <<"rejected">>
    /\ pcRead = "exited" /\ pcChat = "exited" /\ pcTTS = "exited" /\ pcWriter = "exited"
    /\ connCloses = 1

----------------------------------------------------------------------------
(* Claims about control frames *)

\* the text messages that do not decode or whose type is none of the four
RejectedMessages ==
    {m \in TextMessages : ~m.parses \/ m.type \notin {"hello", "iot", "abort", "listen"}}

HelloReturns == pcRead = "sendHello" /\ pcRead' # "sendHello"

\* the step appends exactly fr to the outbound queue and to its log
Enqueues(fr) ==
    /\ outLog' = Append(outLog, fr)
    /\ responseChan' = Append(responseChan, fr)

\* C22 as stated: in any session state the handling of a hello frame
\* enqueues exactly one hello reply with the configured sample rate and
\* leaves the per-connection state unchanged.
C22_HelloAlwaysAnswered ==
    [][ HelloReturns
          => /\ Enqueues(Frame("hello", 0, 0, SampleRate))
             /\ UNCHANGED <<connVars, iotVars>> ]_vars

\* C22 amended: the same while the cancellation signal has not been
\* triggered; after it the handler may return without the reply, and never
\* enqueues more than one.  A hello reply is enqueued by nothing else.
C22_HelloAnsweredWhileLive ==
    /\ [][ \A m \in {t \in TextMessages : t.parses /\ t.type = "hello"} :
             handleTextMessage(m)
                => /\ pcRead' = "sendHello"
                   /\ UNCHANGED <<connVars, iotVars, outLog, responseChan>> ]_vars
    /\ [][ pcRead = "sendHello" => UNCHANGED <<connVars, iotVars>> ]_vars
    /\ [][ HelloReturns
             => /\ pcRead' = LoopTop
                /\ \/ Enqueues(Frame("hello", 0, 0, SampleRate))
                   \/ ctxDone /\ UNCHANGED <<outLog, responseChan>> ]_vars
    /\ [][ (Len(outLog') > Len(outLog) /\ outLog'[Len(outLog')].kind = "hello")
             => HelloReturns ]_vars

C22_Witness ==
    /\ Len(outLog) = 2 /\ outLog[2] = Frame("hello", 0, 0, SampleRate)
    /\ outLog[1].kind = "abortStop"
    /\ ClientAbort /\ ClientHaveVoice /\ States # 0
    /\ pcRead = "read" /\ ~ctxDone

\* the step in which sendResponse returns to the handler of abort
AbortReturns == pcRead = "sendAbort" /\ pcRead' # "sendAbort"

\* C23 as stated: the handling of an abort command sets client-abort and
\* enqueues a tts stop frame before the read loop does anything else,
\* whether or not a reply is active.
C23_AbortAlwaysSendsStop ==
    [][ AbortReturns
          => /\ ClientAbort
             /\ Enqueues(Frame("abortStop", 0, 0, 0)) ]_vars

\* C23 amended: the command sets client-abort at once; the read loop then
\* does nothing but hand the tts stop frame to the outbound queue, and goes
\* back to reading only when that returns; the frame is enqueued unless the
\* cancellation signal has been triggered, whether or not a reply is active.
C23_AbortSendsStopWhileLive ==
    /\ [][ handleAbort => (ClientAbort' /\ pcRead' = "sendAbort"
                             /\ UNCHANGED <<outLog, responseChan>>) ]_vars
    /\ [](pcRead = "sendAbort" => ClientAbort)
    /\ [][ pcRead = "sendAbort"
             => /\ pcRead' \in {"sendAbort", LoopTop}
                /\ UNCHANGED <<connVars, iotVars, asrCalls, routed>> ]_vars
    /\ [][ AbortReturns
             => /\ pcRead' = LoopTop
                /\ \/ Enqueues(Frame("abortStop", 0, 0, 0))
                   \/ ctxDone /\ UNCHANGED <<outLog, responseChan>> ]_vars

\* an abort answered while the generation of a reply was streaming
C23_Witness ==
    /\ outLog # <<>> /\ outLog[Len(outLog)].kind = "abortStop"
    /\ abortedGen # 0
    /\ pcRead = "read" /\ ClientAbort /\ ~ctxDone

----------------------------------------------------------------------------
(* Claims about the voice flags *)

\* C25: in every reachable state, voice-stop set implies has-voice set.
\* A listen frame with state "detect" clears ClientHaveVoice and leaves
\* ClientVoiceStop as it is (websocket.go lines 466-470), so after a listen
\* "stop" it leaves voice-stop set with has-voice clear.
C25_VoiceStopImpliesHaveVoice == ClientVoiceStop => ClientHaveVoice

----------------------------------------------------------------------------
(* Claims about several sessions *)

\* C26: no session's read loop is kept waiting by a voice-activity or
\* recognition call that another session has in flight.  IsVAD and
\* ProcessASR take a mutex of the package, shared by every session, and keep
\* it for the length of the call, so a read loop at Lock waits while another
\* session's call is in flight.
C26_NoWaitOnOtherSession ==
    \A a, b \in Sessions :
        a # b => /\ ~(peers[a].pc = "vadLock" /\ vadMutex = b /\ peers[b].pc = "vadCall")
                 /\ ~(peers[a].pc = "asrLock" /\ asrMutex = b /\ peers[b].pc = "asrCall")

----------------------------------------------------------------------------
(* Claims about the owner of the connection state *)

\* the fields of the session's ConnectionState
connectionState == <<connVars, iotVars, LLMFlag, paceVars>>

\* C27: a step that writes a field of the ConnectionState is a step of the
\* read loop: it moves neither the generation stage nor the synthesis stage
\* nor the writer.  ProcessLLM sets and clears LLMFlag in the generation
\* task, handleTTS and TTS write StartSpeakTime and TTSDuration in the
\* synthesis task.
C27_OnlyReadLoopWritesState ==
    [][ connectionState' # connectionState
           => UNCHANGED <<chatVars, ttsVars, writerVars>> ]_vars

----------------------------------------------------------------------------
(* Claims about dropped frames *)

\* C28: an audio frame that arrives while ASRServerReceive is false changes
\* no field of the connection state (raw accumulator, utterance queue, voice
\* flags, timers), asks the voice-activity collaborator nothing and starts
\* no recognition call: the read loop is back at its read.
C28_FrameDroppedWhileNotAccepting ==
    [][ (~ASRServerReceive /\ RecvAudio)
           => /\ UNCHANGED <<connVars, segGhost, asrCalls, asrText, idleMarked>>
              /\ pcRead' = "read" ]_vars

C28_Witness ==
    /\ ~ASRServerReceive
    /\ pcRead = "read"
    /\ ENABLED RecvAudio
    /\ ASRAudio # <<>>

----------------------------------------------------------------------------
(* Claims about the fragment queue *)

\* C29: ttsChan never holds more than ChanCap fragments and its fragments
\* stay in streaming order; a streamed line with a chunk can always be
\* handled, whatever the length of the queue; handling it appends the
\* fragment when there is room and otherwise leaves the queue as it is, and
\* in both cases the generation stage goes on to its next line.
C29_FragmentPushNeverBlocks ==
    /\ [](Len(ttsChan) <= ChanCap)
    /\ [](\A i, j \in 1..Len(ttsChan) : i < j => ttsChan[i][2] < ttsChan[j][2])
    /\ []((pcChat = "wait" /\ chatFrags < BurstFrags) => ENABLED LLMStreamingBurst)
    /\ [][ LLMStreamingBurst
             => /\ pcChat' = "check"
                /\ ttsChan' = IF Len(ttsChan) = ChanCap THEN ttsChan
                              ELSE Append(ttsChan, <<chatReply, chatFrags + 1>>) ]_vars

\* the queue is full and the fragment just streamed is not in it
C29_Witness ==
    /\ pcChat = "check"
    /\ Len(ttsChan) = ChanCap
    /\ ttsChan[ChanCap][2] < chatFrags

----------------------------------------------------------------------------
(* Claims about the size of the utterance queue *)

\* C30: in every reachable state the bytes held in the utterance queue are
\* at most MaxAudioSize.  handleAudioMessage appends every voiced frame
\* without looking at the size; the size is compared only inside
\* ProcessASR, at dispatch, and a queue found too large is kept.
C30_QueueWithinMaxAudioSize == SumSeq(ASRAudio) <= MaxAudioSize

----------------------------------------------------------------------------
(* Claims about the teardown and the outbound queue *)

\* C33: no task sends on responseChan after the teardown has closed it.
\* sendResponse is a select between ctx.Done() and the send; the teardown
\* cancels the context and then closes responseChan, after which both cases
\* of the select can proceed, and the send on the closed channel panics.
C33_NoSendOnClosedQueue == ~panicked

\* C34: once the context is cancelled the read loop is never again put at
\* its read: a step that finds it elsewhere does not bring it there, and a
\* step that leaves it at its read was not its own (the frame whose read was
\* pending is the last one it routes).
C34_OneFrameAfterCancel ==
    [][ (ctxDone /\ pcRead' = "read")
           => /\ pcRead = "read"
              /\ UNCHANGED <<connVars, iotVars, asrText, asrCalls, routed>> ]_vars

\* the context is cancelled while a read is pending and a frame can arrive
C34_Witness ==
    /\ ctxDone
    /\ pcRead = "read"
    /\ connCloses = 0
    /\ ENABLED RecvText

----------------------------------------------------------------------------
(* Claims about the stop frames of a reply *)

StopKinds == {"stop", "abortStop"}

\* the frames i < j of outLog lie after the same start frame, with no start
\* frame between that one and j
SameReply(i, j) ==
    \E k \in 1..(i - 1) :
        /\ outLog[k].kind = "start"
        /\ \A m \in (k + 1)..j : outLog[m].kind # "start"

\* C35: between a reply's start frame and the next start frame no stop frame
\* of the synthesis stage comes together with another stop frame, be it the
\* abort handler's or its own.  The abort handler enqueues its stop at once;
\* a synthesis call in flight at that moment still runs the end check of
\* handleTTS lines 222-226 and enqueues a second one.
C35_OneStopPerReply ==
    \A i, j \in 1..Len(outLog) :
        ( /\ i < j
          /\ outLog[i].kind \in StopKinds
          /\ outLog[j].kind \in StopKinds
          /\ "stop" \in {outLog[i].kind, outLog[j].kind} )
        => ~SameReply(i, j)

----------------------------------------------------------------------------
(* Claims about the listen command *)

ListenDetect == \E mode \in {"", "auto", "manual"} : handleListen(mode, "detect")

\* C32: a listen command with state "detect" empties the utterance queue and
\* leaves the last-voice time, the no-voice time, the raw accumulator,
\* ASRServerReceive and ClientAbort as they were.
C32_DetectEmptiesQueueOnly ==
    [][ ListenDetect
           => /\ ASRAudio' = <<>>
              /\ UNCHANGED <<ClientHaveVoiceLastTime, ClientNoVoiceLastTime,
                             ClientAudioBuffer, ASRServerReceive, ClientAbort>> ]_vars

\* only a detect leaves a last-voice time behind with has-voice clear
C32_Witness ==
    /\ ASRAudio = <<>>
    /\ ~ClientHaveVoice
    /\ ClientHaveVoiceLastTime # 0
    /\ ClientAudioBuffer # 0

ListenStop == \E mode \in {"", "auto", "manual"} : handleListen(mode, "stop")

----------------------------------------------------------------------------
(* Claims about the pacing of the end of speech *)

\* C31: whenever the synthesis stage takes the first fragment of a reply off
\* ttsChan, StartSpeakTime and TTSDuration are both zero.  handleTTS resets
\* them only after the frames of a reply's last fragment (lines 222-231); a
\* failed synthesis call and a fragment skipped for ClientAbort leave the
\* loop body before that, with what the earlier reply had accumulated.
C31_PacingStartsFromZero ==
    [][ (TTSRecv /\ Head(ttsChan)[2] = 1)
           => (StartSpeakTime = 0 /\ TTSDuration = 0) ]_vars

\* the steps of the three tasks that write session state
ReadLoopStep ==
    \/ PTTStartOnce \/ PTTStop \/ PTTAudioOnce \/ RecvAbort \/ sendAbortStop
    \/ ASRReturn \/ send2LLM

GenerationStep ==
    \/ ChatRecv \/ ChatStartSpeak \/ LLMRequestFail \/ LLMRequestOK
    \/ LLMCheckAbort \/ LLMStreamingLife \/ LLMOtherLine \/ LLMComplete \/ LLMStreamEnds

SynthesisStep == TTSRecv \/ TTSReturnLife \/ TTSEmit \/ TTSEndCheck \/ TTSEndSpeak

\* C37: each piece of session state has one writing task.  A step that
\* changes ClientAbort, the listen mode, the voice flags and timers, the raw
\* accumulator, the utterance queue or ASRServerReceive is a step of the read
\* loop; a step that changes LLMFlag or the dialogue history is a step of the
\* generation stage; a step that changes StartSpeakTime or TTSDuration is a
\* step of the synthesis stage.
C37_OneWriterPerField ==
    /\ [][ connVars' # connVars => ReadLoopStep ]_vars
    /\ [][ (LLMFlag' # LLMFlag \/ dialogueStore' # dialogueStore) => GenerationStep ]_vars
    /\ [][ paceVars' # paceVars => SynthesisStep ]_vars

\* all three tasks have written their part
C37_Witness ==
    /\ ClientAbort
    /\ LLMFlag
    /\ dialogueStore # <<>>
    /\ StartSpeakTime # 0
    /\ TTSDuration # 0

----------------------------------------------------------------------------
(* Claims about the dialogue history *)

TurnsOf(role) == SelectSeq(dialogueStore, LAMBDA t : t.role = role)

Contents(turns) == [i \in 1..Len(turns) |-> turns[i].content]

\* C24: every change of the dialogue history appends one turn at its end;
\* a user turn is appended by the generation task when it takes a routed
\* text off its queue, so the user turns are the texts taken so far, each
\* once and in routing order; an assistant turn is appended only by the step
\* that reads a complete event, at most once per reply; no step of the read
\* loop, the synthesis stage or the writer changes the history.
C24_HistoryAppendOnly ==
    /\ [][ dialogueStore' # dialogueStore
             => /\ Len(dialogueStore') = Len(dialogueStore) + 1
                /\ SubSeq(dialogueStore', 1, Len(dialogueStore)) = dialogueStore
                /\ UNCHANGED <<pcRead, pcTTS, pcWriter>>
                /\ LET turn == dialogueStore'[Len(dialogueStore')]
                   IN  \/ turn.role = "user" /\ ChatRecv /\ turn.content = Head(llmChan)
                       \/ turn.role = "assistant" /\ LLMComplete
                          /\ turn.content = chatReply ]_vars
    /\ [](Contents(TurnsOf("user")) = SubSeq(routed, 1, replies))
    /\ [](Len(routed) = replies + Len(llmChan))
    /\ [](LET a == Contents(TurnsOf("assistant"))
          IN  \A i, j \in 1..Len(a) : (i < j => a[i] < a[j]) /\ a[i] <= replies)

C24_Witness ==
    /\ Len(dialogueStore) >= 2
    /\ dialogueStore[1].role = "user"
    /\ dialogueStore[2].role = "assistant"
    /\ genFailed = {}

----------------------------------------------------------------------------
(* Claims about the dialogue pipeline *)

PipeKinds == {"start", "audio", "stop"}

\* frames the pipeline produced for reply r, in the order they were enqueued
ReplyFrames(r) ==
    SelectSeq(outLog, LAMBDA fr : fr.kind \in PipeKinds /\ fr.reply = r)

\* the frames of a reply whose fragments 1..n were all synthesised
FramesOfFragments(r, n) ==
    [i \in 1..(n * MaxFrames) |->
        Frame("audio", r, ((i - 1) \div MaxFrames) + 1, ((i - 1) % MaxFrames) + 1)]

\* C3: the frames enqueued for one reply are its start frame, then the audio
\* frames of its fragments in the order they were queued, each fragment's
\* frames all of them and in the order the synthesis collaborator returned
\* them, then its stop frame; no audio frame of the reply precedes the start
\* frame or follows the stop frame.  Stated for each frame at the step that
\* enqueues it: the log only grows by that frame, and the frame is in order
\* with every frame enqueued before it.
C3_ReplyFrameOrder ==
    [][ outLog' # outLog =>
          LET b == outLog'[Len(outLog')]
              Logged(fr) == \E k \in 1..Len(outLog) : outLog[k] = fr
          IN  /\ outLog' = Append(outLog, b)
              /\ b.kind \in {"audio", "stop"} => Logged(Frame("start", b.reply, 0, 0))
              /\ (b.kind = "audio" /\ b.idx > 1)
                    => Logged(Frame("audio", b.reply, b.frag, b.idx - 1))
              /\ \A i \in 1..Len(outLog) :
                    LET a == outLog[i]
                    IN  (a.kind \in PipeKinds /\ b.kind \in PipeKinds /\ a.reply = b.reply)
                          => /\ b.kind # "start"
                             /\ a.kind # "stop"
                             /\ (a.kind = "audio" /\ b.kind = "audio")
                                   => (a.frag < b.frag \/ (a.frag = b.frag /\ a.idx < b.idx))
                             /\ (a.kind = "audio" /\ (b.kind = "stop" \/ b.frag > a.frag))
                                   => Logged(Frame("audio", a.reply, a.frag, MaxFrames)) ]_vars

C3_Witness ==
    ReplyFrames(1) = <<Frame("start", 1, 0, 0)>> \o FramesOfFragments(1, 2)
                       \o <<Frame("stop", 1, 0, 0)>>

\* C4: frames of two replies are never interleaved on the outbound queue:
\* once the start frame of a reply has been enqueued, no audio or stop frame
\* of an earlier reply is enqueued after it.
C4_RepliesNotInterleaved ==
    \A i \in 1..Len(outLog) : \A j \in (i + 1)..Len(outLog) :
        (outLog[i].kind = "start" /\ outLog[j].kind \in {"audio", "stop"})
            => outLog[j].reply >= outLog[i].reply

\* C5: with no abort, once every stage is idle and both queues are empty,
\* every reply whose start frame was enqueued has had its stop frame enqueued.
C5_StartedReplyIsStopped ==
    ( /\ pcRead = "read" /\ pcChat = "idle" /\ pcTTS = "idle"
      /\ llmChan = <<>> /\ ttsChan = <<>>
      /\ AbortsSoFar = 0 /\ ~ClientAbort )
    => \A i \in 1..Len(outLog) :
          outLog[i].kind = "start"
             => \E j \in (i + 1)..Len(outLog) :
                   outLog[j] = Frame("stop", outLog[i].reply, 0, 0)

\* C6: no assistant turn is appended for a reply whose generation was
\* streaming when an abort command was handled.
C6_NoAssistantTurnAfterAbort ==
    [][ Len(dialogueStore') > Len(dialogueStore)
          => LET turn == dialogueStore'[Len(dialogueStore')]
             IN  turn.role = "assistant" => turn.content # abortedGen ]_vars

\* C7: once an abort command has been handled, no audio frame of a reply
\* that handleChat had taken by then is enqueued any more.
C7_NoAudioAfterAbort ==
    [][ Len(outLog') > Len(outLog)
          => LET fr == outLog'[Len(outLog')]
             IN  fr.kind = "audio" => fr.reply > abortedUpTo ]_vars

====
